---- MODULE Spec2Model ----
(***************************************************************************)
(* sparse-qubo: cardinality constraints over binary variables compiled to  *)
(* sparse QUBOs through switching networks.                                *)
(*                                                                         *)
(* The module models the constraint front-end (core/constraint.py), the    *)
(* simplification driver (core/network.py), the network constructors       *)
(* (networks/*.py) and the switch-to-QUBO reduction (core/switch.py).      *)
(* Python lists are sequences (index i of the code is index i+1 here),     *)
(* frozensets are sets, names are strings built exactly as the f-strings   *)
(* of the code build them.                                                 *)
(***************************************************************************)
EXTENDS Integers, Sequences, FiniteSets, TLC

VARIABLES
    counter,                 \* constraint._constraint_prefix_counter
    max_degree,              \* ClosNetworkWithMaxDegree.max_degree (None or {k})
    num_elements_dict,       \* ClosNetworkWithMaxDegree.num_elements_dict
    is_small_dict,           \* ClosNetworkMinimumEdge.is_small_dict
    num_logical_edges_dict,  \* ClosNetworkMinimumEdge.num_logical_edges_dict
    ret,                     \* the last operation and what it returned to the caller
    prev,                    \* the operation before it
    handed                   \* the default prefixes assigned since the counter was last 0

vars == <<counter, max_degree, num_elements_dict, is_small_dict,
          num_logical_edges_dict, ret, prev, handed>>

-----------------------------------------------------------------------------
(* Python values *)

\* An optional int (int | None) is a set with at most one element.
None == {}
Some(v) == {v}
Val(o) == CHOOSE v \in o : TRUE

\* list index as in the code (0-based)
At(s, i) == s[i + 1]
\* s[a:b] of the code (0 <= a, b; clipped like a Python slice)
Slice(s, a, b) ==
    LET lo == IF a > Len(s) THEN Len(s) ELSE a
        hi == IF b > Len(s) THEN Len(s) ELSE b
    IN  IF hi <= lo THEN << >> ELSE SubSeq(s, lo + 1, hi)
\* s[start:stop:step] of the code, start < step
Stride(s, start, stop, step) ==
    LET n == IF stop <= start THEN 0 ELSE (stop - start + step - 1) \div step
    IN  [k \in 1..n |-> At(s, start + (k - 1) * step)]
Reverse(s) == [k \in 1..Len(s) |-> s[Len(s) + 1 - k]]
Range(s) == {s[k] : k \in 1..Len(s)}
Names(nodes) == [k \in 1..Len(nodes) |-> nodes[k].name]

\* CeilHalf with the division rounded down
FloorHalf(n) == n \div 2

\* math.ceil(a / 2)
CeilHalf(a) == (a + 1) \div 2

RECURSIVE Concat(_)
\* concatenation of a sequence of lists (list.extend in a loop)
Concat(ss) == IF ss = << >> THEN << >> ELSE Head(ss) \o Concat(Tail(ss))

RECURSIVE SetSum(_, _)
SetSum(S, f) ==
    IF S = {} THEN 0
    ELSE LET e == CHOOSE e \in S : TRUE IN f[e] + SetSum(S \ {e}, f)

RECURSIVE IterOrder(_)
\* The order in which a loop visits a frozenset of names.
IterOrder(S) ==
    IF S = {} THEN << >>
    ELSE LET e == CHOOSE e \in S : TRUE IN <<e>> \o IterOrder(S \ {e})

-----------------------------------------------------------------------------
(* core/node.py, core/switch.py *)

ZERO_OR_ONE == "ZERO_OR_ONE"
ALWAYS_ZERO == "ALWAYS_ZERO"
ALWAYS_ONE == "ALWAYS_ONE"
NOT_CARE == "NOT_CARE"
NodeAttribute == {ZERO_OR_ONE, ALWAYS_ZERO, ALWAYS_ONE, NOT_CARE}

VariableNode(name, attribute) == [name |-> name, attribute |-> attribute]

Switch(left_nodes, right_nodes, left_constant, right_constant) ==
    [left_nodes |-> left_nodes, right_nodes |-> right_nodes,
     left_constant |-> left_constant, right_constant |-> right_constant]

\* Switch(left_nodes=..., right_nodes=...) with the default constants
Switch2(left_nodes, right_nodes) == Switch(left_nodes, right_nodes, 0, 0)

\* outcome of a call that may raise
Ok(v) == [err |-> "none", val |-> v]
Raise(e) == [err |-> e, val |-> << >>]

-----------------------------------------------------------------------------
(* core/constraint.py: the boundary nodes of a constraint *)

ONE_HOT == "one_hot"
EQUAL_TO == "equal_to"
LESS_EQUAL == "less_equal"
GREATER_EQUAL == "greater_equal"
CLAMP == "clamp"
ConstraintType == {ONE_HOT, EQUAL_TO, LESS_EQUAL, GREATER_EQUAL, CLAMP}

RECURSIVE bit_length(_)
\* int.bit_length() of a non-negative int
bit_length(v) == IF v = 0 THEN 0 ELSE 1 + bit_length(v \div 2)

\* get_original_right_attr with the attributes laid out from the other end:
\* the nodes of the larger counts first
get_original_right_attr_reversed(i, original_size, constraint_type, c1, c2) ==
    CASE constraint_type = ONE_HOT ->
            Ok(IF i >= 1 THEN ALWAYS_ZERO ELSE ALWAYS_ONE)
      [] constraint_type = EQUAL_TO ->
            IF c1 = None \/ ~(0 <= Val(c1) /\ Val(c1) <= original_size)
            THEN Raise("ValueError")
            ELSE Ok(IF i >= Val(c1) THEN ALWAYS_ZERO ELSE ALWAYS_ONE)
      [] constraint_type = LESS_EQUAL ->
            IF c1 = None \/ ~(0 < Val(c1) /\ Val(c1) <= original_size)
            THEN Raise("ValueError")
            ELSE Ok(IF i >= Val(c1) THEN ALWAYS_ZERO ELSE NOT_CARE)
      [] constraint_type = GREATER_EQUAL ->
            IF c1 = None \/ ~(0 <= Val(c1) /\ Val(c1) < original_size)
            THEN Raise("ValueError")
            ELSE Ok(IF i >= Val(c1) THEN NOT_CARE ELSE ALWAYS_ONE)
      [] constraint_type = CLAMP ->
            IF c1 = None \/ c2 = None
               \/ ~(0 <= Val(c1) /\ Val(c1) <= Val(c2) /\ Val(c2) <= original_size)
            THEN Raise("ValueError")
            ELSE Ok(IF i >= Val(c2) THEN ALWAYS_ZERO
                    ELSE IF i >= Val(c1) THEN NOT_CARE
                    ELSE ALWAYS_ONE)
      [] OTHER -> Raise("NotImplementedError")

get_original_right_attr(i, original_size, constraint_type, c1, c2) ==
    CASE constraint_type = ONE_HOT ->
            Ok(IF i < original_size - 1 THEN ALWAYS_ZERO ELSE ALWAYS_ONE)
      [] constraint_type = EQUAL_TO ->
            IF c1 = None \/ ~(0 <= Val(c1) /\ Val(c1) <= original_size)
            THEN Raise("ValueError")
            ELSE Ok(IF i < original_size - Val(c1) THEN ALWAYS_ZERO ELSE ALWAYS_ONE)
      [] constraint_type = LESS_EQUAL ->
            IF c1 = None \/ ~(0 < Val(c1) /\ Val(c1) <= original_size)
            THEN Raise("ValueError")
            ELSE Ok(IF i < original_size - Val(c1) THEN ALWAYS_ZERO ELSE NOT_CARE)
      [] constraint_type = GREATER_EQUAL ->
            IF c1 = None \/ ~(0 <= Val(c1) /\ Val(c1) < original_size)
            THEN Raise("ValueError")
            ELSE Ok(IF i < original_size - Val(c1) THEN NOT_CARE ELSE ALWAYS_ONE)
      [] constraint_type = CLAMP ->
            IF c1 = None \/ c2 = None
               \/ ~(0 <= Val(c1) /\ Val(c1) <= Val(c2) /\ Val(c2) <= original_size)
            THEN Raise("ValueError")
            ELSE Ok(IF i < original_size - Val(c2) THEN ALWAYS_ZERO
                    ELSE IF i < original_size - Val(c1) THEN NOT_CARE
                    ELSE ALWAYS_ONE)
      [] OTHER -> Raise("NotImplementedError")

\* get_initial_nodes: Ok([left, right]) or the error the comprehension of
\* line 101 raises at its first element
get_initial_nodes(variables, constraint_type, c1, c2, exponentiation) ==
    LET original_size == Len(variables)
        target_size == IF exponentiation /\ original_size > 0
                       THEN 2 ^ bit_length(original_size - 1)
                       ELSE original_size
        pad_len == target_size - original_size
        left_pad_attrs == [k \in 1..pad_len |-> ALWAYS_ZERO]
        left_var_attrs == [k \in 1..original_size |-> ZERO_OR_ONE]
        attr_results == [k \in 1..original_size |->
                            get_original_right_attr(k - 1, original_size,
                                                    constraint_type, c1, c2)]
        right_attrs == [k \in 1..pad_len |-> ALWAYS_ZERO]
                       \o [k \in 1..original_size |-> attr_results[k].val]
        left_nodes == [k \in 1..pad_len |->
                          VariableNode("L" \o ToString(k - 1), left_pad_attrs[k])]
                      \o [k \in 1..original_size |->
                          VariableNode(variables[k], left_var_attrs[k])]
        right_nodes == [k \in 1..target_size |->
                          VariableNode("R" \o ToString(k - 1), right_attrs[k])]
    IN  IF original_size > 0 /\ attr_results[1].err # "none"
        THEN Raise(attr_results[1].err)
        ELSE Ok([left |-> left_nodes, right |-> right_nodes])

-----------------------------------------------------------------------------
(* core/network.py: the simplification driver *)

CountAttr(nodes, attr, a) == Cardinality({n \in nodes : attr[n] = a})
\* CountNotAttr that counts every node, those of attribute a too
CountNotAttrCountsAll(nodes, attr, a) == Cardinality(nodes)

CountNotAttr(nodes, attr, a) == Cardinality({n \in nodes : attr[n] # a})

\* dict update: name_to_attribute[node] = a for every node of S
SetAttr(attr, S, a) ==
    [n \in S |-> a] @@ attr

\* the degenerate switches appended in the loops of lines 88-98 and 100-110
UnitSwitches(nodes, c) ==
    LET order == IterOrder(nodes)
    IN  [k \in 1..Len(order) |-> Switch({order[k]}, {}, 0, c)]

\* FoldSwitch with the ALWAYS_ONE right nodes dropped without being added
\* to right_constant
FoldSwitchNoConstant(switch, attr) ==
    Switch(switch.left_nodes,
           {n \in switch.right_nodes : attr[n] # ALWAYS_ONE /\ attr[n] # ALWAYS_ZERO},
           switch.left_constant,
           switch.right_constant)

\* FoldSwitch with the fixed right nodes counted into right_constant and
\* also kept in the right set
FoldSwitchKeepsFixed(switch, attr) ==
    Switch(switch.left_nodes,
           switch.right_nodes,
           switch.left_constant,
           switch.right_constant + CountAttr(switch.right_nodes, attr, ALWAYS_ONE))

\* the switch emitted at lines 120-139, constant nodes omitted
FoldSwitch(switch, attr) ==
    Switch(switch.left_nodes,
           {n \in switch.right_nodes : attr[n] # ALWAYS_ONE /\ attr[n] # ALWAYS_ZERO},
           switch.left_constant,
           switch.right_constant + CountAttr(switch.right_nodes, attr, ALWAYS_ONE))

\* one iteration of the loop of lines 57-139 on the driver state
\* st = [err, current_nodes, name_to_attribute, result_network]
DriverStep(st, switch) ==
    IF st.err # "none" THEN st
    ELSE IF ~(switch.right_nodes \subseteq st.current_nodes)
    THEN [st EXCEPT !.err = "ValueError: Invalid network"]
    ELSE
    LET current1 == st.current_nodes \ switch.right_nodes
    IN  IF switch.left_nodes \cap current1 # {}
        THEN [st EXCEPT !.err = "ValueError: Invalid network"]
        ELSE
        LET current2 == current1 \cup switch.left_nodes
            attr == st.name_to_attribute
            num_left_variables == Cardinality(switch.left_nodes)
            right_sum_min == CountAttr(switch.right_nodes, attr, ALWAYS_ONE)
                             + switch.right_constant - switch.left_constant
            right_sum_max == CountNotAttr(switch.right_nodes, attr, ALWAYS_ZERO)
                             + switch.right_constant - switch.left_constant
        IN  IF ~(right_sum_max >= 0 /\ right_sum_min <= num_left_variables)
            THEN [st EXCEPT !.err = "ValueError: Invalid network",
                            !.current_nodes = current2]
            ELSE IF right_sum_min = num_left_variables
            THEN [st EXCEPT !.current_nodes = current2,
                            !.name_to_attribute = SetAttr(attr, switch.left_nodes, ALWAYS_ONE),
                            !.result_network = @ \o UnitSwitches(switch.left_nodes, 1)]
            ELSE IF right_sum_max = 0
            THEN [st EXCEPT !.current_nodes = current2,
                            !.name_to_attribute = SetAttr(attr, switch.left_nodes, ALWAYS_ZERO),
                            !.result_network = @ \o UnitSwitches(switch.left_nodes, 0)]
            ELSE IF (\A n \in switch.right_nodes : attr[n] = NOT_CARE)
                    /\ right_sum_min <= 0 /\ right_sum_max >= num_left_variables
            THEN [st EXCEPT !.current_nodes = current2,
                            !.name_to_attribute = SetAttr(attr, switch.left_nodes, NOT_CARE)]
            ELSE LET attr2 == SetAttr(attr, switch.left_nodes, ZERO_OR_ONE)
                 IN  [st EXCEPT !.current_nodes = current2,
                                !.name_to_attribute = attr2,
                                !.result_network = @ \o <<FoldSwitch(switch, attr2)>>]

RECURSIVE DriverLoop(_, _, _)
\* the loop over network[::-1]: k runs from len(network) down to 1; a raise
\* ends it
DriverLoop(st, network, k) ==
    IF k = 0 \/ st.err # "none" THEN st
    ELSE DriverLoop(DriverStep(st, network[k]), network, k - 1)

\* DriverInit with the frontier starting empty
DriverInitNoFrontier(right_nodes) ==
    [err |-> "none",
     current_nodes |-> {},
     name_to_attribute |->
        [n \in {right_nodes[k].name : k \in 1..Len(right_nodes)} |->
            LET last == CHOOSE k \in 1..Len(right_nodes) :
                            /\ right_nodes[k].name = n
                            /\ \A j \in (k + 1)..Len(right_nodes) : right_nodes[j].name # n
            IN  right_nodes[last].attribute],
     result_network |-> << >>]

\* the driver state before the loop (lines 54-56)
DriverInit(right_nodes) ==
    [err |-> "none",
     current_nodes |-> {right_nodes[k].name : k \in 1..Len(right_nodes)},
     name_to_attribute |->
        [n \in {right_nodes[k].name : k \in 1..Len(right_nodes)} |->
            \* a dict comprehension keeps the last value of a repeated key
            LET last == CHOOSE k \in 1..Len(right_nodes) :
                            /\ right_nodes[k].name = n
                            /\ \A j \in (k + 1)..Len(right_nodes) : right_nodes[j].name # n
            IN  right_nodes[last].attribute],
     result_network |-> << >>]

\* generate_network returning the list in the order it was built whatever
\* reverse says
generate_network_unreversed(original, right_nodes, reverse) ==
    IF original.err # "none" THEN original
    ELSE LET st == DriverLoop(DriverInit(right_nodes), original.val, Len(original.val))
         IN  IF st.err # "none" THEN Raise(st.err)
             ELSE Ok(st.result_network)

\* ISwitchingNetwork.generate_network applied to the raw network `original`
\* (the outcome of cls._generate_original_network)
generate_network(original, right_nodes, reverse) ==
    IF original.err # "none" THEN original
    ELSE LET st == DriverLoop(DriverInit(right_nodes), original.val, Len(original.val))
         IN  IF st.err # "none" THEN Raise(st.err)
             ELSE IF reverse THEN Ok(Reverse(st.result_network))
             ELSE Ok(st.result_network)

-----------------------------------------------------------------------------
(* networks/bubble_sort_network.py *)

\* all_nodes[i] of lines 22-27: the chain of names of wire i (0-based i)
BubbleWire(left_names, right_names, i) ==
    LET N == Len(left_names)
        inner == IF i > 0 THEN (N - 1 - i) * 2 ELSE N - 2
    IN  <<At(left_names, i)>>
        \o [j \in 1..inner |->
              At(left_names, i) \o "_" \o ToString(j - 1) \o "_" \o At(right_names, i)]
        \o <<At(right_names, i)>>

\* the values of i of the outer loop of line 31
BubbleRounds(N) ==
    [k \in 1..(N - 1) |-> k]
    \o (IF N - 2 >= 1 THEN [k \in 1..(N - 2) |-> N - 1 - k] ELSE << >>)

\* the pairs (k1, k2) of the inner loop of lines 32-33 for one i
BubblePairs(i) == [m \in 1..((i + 1) \div 2) |-> <<i - 2 * (m - 1), i - 2 * (m - 1) - 1>>]

\* the pairs (k1, k2) in the order the two loops of lines 31-33 visit them
BubbleSteps(N) ==
    LET rounds == BubbleRounds(N)
    IN  Concat([r \in 1..Len(rounds) |-> BubblePairs(rounds[r])])

\* progress[k] when the step t runs: lines 43-44 have incremented it once
\* for every earlier step on the wire k (the bitonic and odd-even loops
\* keep the same counter)
BubbleProgress(steps, t, k) ==
    Cardinality({u \in 1..(t - 1) : steps[u][1] = k \/ steps[u][2] = k})

\* the channel appended at lines 34-42 by the step t
BubbleChannel(all_nodes, steps, t) ==
    LET k1 == steps[t][1]
        k2 == steps[t][2]
        p1 == BubbleProgress(steps, t, k1)
        p2 == BubbleProgress(steps, t, k2)
    IN  Switch2({At(At(all_nodes, k1), p1), At(At(all_nodes, k2), p2)},
                {At(At(all_nodes, k1), p1 + 1), At(At(all_nodes, k2), p2 + 1)})

\* BubbleSortNetwork._generate_original_network
BubbleSortNetwork(left_nodes, right_nodes) ==
    LET left_names == Names(left_nodes)
        right_names == Names(right_nodes)
        N == Len(left_names)
        all_nodes == [k \in 1..N |-> BubbleWire(left_names, right_names, k - 1)]
    IN  IF Len(left_names) # Len(right_names) THEN Raise("ValueError")
        ELSE LET steps == BubbleSteps(N)
             IN  Ok([t \in 1..Len(steps) |-> BubbleChannel(all_nodes, steps, t)])

-----------------------------------------------------------------------------
(* core/switch.py: reduction of a switch list to a QUBO *)

\* combinations(S, 2) as unordered pairs
Pairs(S) == {{p[1], p[2]} : p \in {q \in S \X S : q[1] # q[2]}}

\* what one iteration of the loop of lines 68-92 adds to quadratic[key]
QuadraticDelta(switch, key) ==
    2 * Cardinality({p \in Pairs(switch.left_nodes) : p = key})
    + 2 * Cardinality({p \in Pairs(switch.right_nodes) : p = key})
    - 2 * Cardinality({p \in switch.left_nodes \X switch.right_nodes : {p[1], p[2]} = key})

QuadraticKeys(switch) ==
    Pairs(switch.left_nodes) \cup Pairs(switch.right_nodes)
    \cup {{p[1], p[2]} : p \in switch.left_nodes \X switch.right_nodes}

\* LinearDelta without the terms of x * x = x
LinearDeltaNoSquare(switch, node) ==
    LET switch_constant == switch.left_constant - switch.right_constant
    IN  (IF node \in switch.left_nodes THEN 2 * switch_constant ELSE 0)
        + (IF node \in switch.right_nodes THEN - 2 * switch_constant ELSE 0)

\* what one iteration adds to linear[node]
LinearDelta(switch, node) ==
    LET switch_constant == switch.left_constant - switch.right_constant
    IN  (IF node \in switch.left_nodes THEN 2 * switch_constant + 1 ELSE 0)
        + (IF node \in switch.right_nodes THEN 1 - 2 * switch_constant ELSE 0)

\* QuboAdd with quadratic[key] assigned instead of incremented
QuboAddOverwrites(q, switch) ==
    LET switch_constant == switch.left_constant - switch.right_constant
        nodes == switch.left_nodes \cup switch.right_nodes
    IN  [variables |-> q.variables \cup nodes,
         quadratic |-> [k \in QuadraticKeys(switch) |-> QuadraticDelta(switch, k)]
                       @@ q.quadratic,
         linear |-> [n \in nodes |->
                          (IF n \in DOMAIN q.linear THEN q.linear[n] ELSE 0)
                          + LinearDelta(switch, n)] @@ q.linear,
         constant |-> q.constant + switch_constant * switch_constant]

\* one iteration of the loop over the switches on the accumulated QUBO
QuboAdd(q, switch) ==
    LET switch_constant == switch.left_constant - switch.right_constant
        nodes == switch.left_nodes \cup switch.right_nodes
    IN  [variables |-> q.variables \cup nodes,
         quadratic |-> [k \in QuadraticKeys(switch) |->
                          (IF k \in DOMAIN q.quadratic THEN q.quadratic[k] ELSE 0)
                          + QuadraticDelta(switch, k)] @@ q.quadratic,
         linear |-> [n \in nodes |->
                          (IF n \in DOMAIN q.linear THEN q.linear[n] ELSE 0)
                          + LinearDelta(switch, n)] @@ q.linear,
         constant |-> q.constant + switch_constant * switch_constant]

EmptyQubo == [variables |-> {}, quadratic |-> << >>, linear |-> << >>, constant |-> 0]

RECURSIVE QuboLoop(_, _, _)
\* the loop of lines 68-92 from the k-th switch on. The constant is a sum of
\* squares, so the second disjunct is never true: it has the accumulated
\* QUBO evaluated at every iteration, as the loop does, and not as one
\* deferred chain of len(switches) updates
QuboLoop(q, switches, k) ==
    IF k > Len(switches) \/ q.constant < 0 THEN q
    ELSE QuboLoop(QuboAdd(q, switches[k]), switches, k + 1)

\* Switch.to_qubo
to_qubo(switches) == QuboLoop(EmptyQubo, switches, 1)

\* the objective of a QUBO at the assignment that sets exactly the
\* variables of `ones` to 1
Energy(q, ones) ==
    q.constant
    + SetSum(DOMAIN q.linear \cap ones, q.linear)
    + SetSum({k \in DOMAIN q.quadratic : k \subseteq ones}, q.quadratic)

-----------------------------------------------------------------------------
(* core/constraint.py: prefixing of the auxiliary variables *)

renamed(v, original_variables, prefix) ==
    IF v \notin original_variables THEN prefix \o "_" \o v ELSE v

_prefix_auxiliary_variables(switches, original_variables, prefix) ==
    [k \in 1..Len(switches) |->
        Switch({renamed(v, original_variables, prefix) : v \in switches[k].left_nodes},
               {renamed(v, original_variables, prefix) : v \in switches[k].right_nodes},
               switches[k].left_constant,
               switches[k].right_constant)]

-----------------------------------------------------------------------------
(* networks/bitonic_sort_network.py, networks/oddeven_merge_sort_network.py *)

\* round(log2(N)) for N >= 1: the floor f of log2(N), or f + 1 when
\* N >= 2^(f + 1/2)
round_log2(N) ==
    LET f == bit_length(N) - 1
    IN  IF N * N >= 2 ^ (2 * f + 1) THEN f + 1 ELSE f

\* list(range(a, b))
RangeSeq(a, b) == [k \in 1..(IF b > a THEN b - a ELSE 0) |-> a + k - 1]

\* all_nodes[i] of bitonic lines 29-34 (0-based i)
BitonicWire(left_names, right_names, i, n) ==
    <<At(left_names, i)>>
    \o [j \in 1..((n * (n + 1)) \div 2 - 1) |->
          At(left_names, i) \o "_" \o ToString(j - 1) \o "_" \o At(right_names, i)]
    \o <<At(right_names, i)>>

\* the wires i of one column: for i in range(N) if (i // M) % 2 == 0
BitonicColumn(N, M) ==
    LET Test(i) == (i \div M) % 2 = 0
    IN  SelectSeq(RangeSeq(0, N), Test)

\* the pairs (i, i + M) in the order of the loops of lines 40-43 / 61-64
BitonicPairs(N, n) ==
    Concat([a \in 1..n |->
        LET m_max == n - a
        IN  Concat([b \in 1..(m_max + 1) |->
                LET M == 2 ^ (b - 1)
                    col == BitonicColumn(N, M)
                IN  [k \in 1..Len(col) |-> <<col[k], col[k] + M>>]])])

\* the switch appended by the k-th pass through the body of the loops, with
\* progress[w] the number of earlier passes on the wire w
BitonicSwitch(all_nodes, pairs, k, reverse) ==
    LET i == pairs[k][1]
        iM == pairs[k][2]
        p_i == BubbleProgress(pairs, k, i)
        p_iM == BubbleProgress(pairs, k, iM)
        near == {At(At(all_nodes, i), p_i), At(At(all_nodes, iM), p_iM)}
        far == {At(At(all_nodes, i), p_i + 1), At(At(all_nodes, iM), p_iM + 1)}
    IN  IF reverse THEN Switch2(near, far) ELSE Switch2(far, near)

\* BitonicSortNetwork._generate_original_network
BitonicSortNetwork(left_nodes, right_nodes, reverse) ==
    LET N == Len(left_nodes)
        n == round_log2(N)
        left_names == IF reverse THEN Names(left_nodes) ELSE Names(right_nodes)
        right_names == IF reverse THEN Names(right_nodes) ELSE Names(left_nodes)
        all_nodes == [k \in 1..N |-> BitonicWire(left_names, right_names, k - 1, n)]
        pairs == BitonicPairs(N, n)
        res == [k \in 1..Len(pairs) |-> BitonicSwitch(all_nodes, pairs, k, reverse)]
    IN  IF Len(left_nodes) # Len(right_nodes) THEN Raise("ValueError")
        ELSE IF N = 0 THEN Raise("ValueError")    \* log2(0): math domain error
        ELSE IF 2 ^ n # N THEN Raise("ValueError")
        ELSE IF reverse THEN Ok(res) ELSE Ok(Reverse(res))

\* the pairs (i, i + M) in the order of the loops of odd-even lines 37-45
OddEvenPairs(N, n) ==
    Concat([a \in 1..n |->
        LET m_max == n + 1 - a
            M_max == 2 ^ m_max
        IN  Concat([b \in 1..(N \div M_max) |->
                LET i_base == (b - 1) * M_max
                IN  Concat([c \in 1..m_max |->
                        LET m == c - 1
                            M == 2 ^ m
                            i_start == IF m < m_max - 1 THEN i_base ELSE i_base - M
                            i_end == i_base + M_max - M
                            Test(i) == ((i - i_start) \div M) % 2 = 1
                            sel == SelectSeq(RangeSeq(i_start, i_end), Test)
                        IN  [k \in 1..Len(sel) |-> <<sel[k], sel[k] + M>>]])])])

\* the temporary switch of lines 46-59 of the k-th pass through the body of
\* the loops; a temporary name f"{i}_{j}" is the pair <<i, j>>
OddEvenTemp(pairs, k) ==
    LET i == pairs[k][1]
        iM == pairs[k][2]
        p_i == BubbleProgress(pairs, k, i)
        p_iM == BubbleProgress(pairs, k, iM)
    IN  Switch2({<<i, p_i>>, <<iM, p_iM>>}, {<<i, p_i + 1>>, <<iM, p_iM + 1>>})

\* temp_name_to_result_name of lines 60-68
OddEvenName(t, progress, left_names, right_names) ==
    LET i == t[1]
        j == t[2]
    IN  IF j = 0 THEN At(left_names, i)
        ELSE IF j = At(progress, i) THEN At(right_names, i)
        ELSE At(left_names, i) \o "_" \o ToString(j - 1) \o "_" \o At(right_names, i)

\* OddEvenMergeSortNetwork._generate_original_network
OddEvenMergeSortNetwork(left_nodes, right_nodes, reverse) ==
    LET N == Len(left_nodes)
        n == round_log2(N)
        left_names == IF reverse THEN Names(left_nodes) ELSE Names(right_nodes)
        right_names == IF reverse THEN Names(right_nodes) ELSE Names(left_nodes)
        pairs == OddEvenPairs(N, n)
        temp == [k \in 1..Len(pairs) |-> OddEvenTemp(pairs, k)]
        progress == [q \in 1..N |-> BubbleProgress(pairs, Len(pairs) + 1, q - 1)]
        Result(S) == {OddEvenName(t, progress, left_names, right_names) : t \in S}
    IN  IF Len(left_nodes) # Len(right_nodes) THEN Raise("ValueError")
        ELSE IF N = 0 THEN Raise("ValueError")    \* log2(0): math domain error
        ELSE IF 2 ^ n # N THEN Raise("ValueError")
        ELSE IF reverse
        THEN Ok([k \in 1..Len(temp) |->
                    Switch2(Result(temp[k].left_nodes), Result(temp[k].right_nodes))])
        ELSE Ok(Reverse([k \in 1..Len(temp) |->
                    Switch2(Result(temp[k].right_nodes), Result(temp[k].left_nodes))]))

-----------------------------------------------------------------------------
(* networks/clos_network_max_degree.py: cost model of the max-degree variant.
   Every operator threads the class state num_elements_dict (memo) and
   returns [err, v, memo]. *)

\* dict[key] = value
DictSet(d, key, value) == [k \in DOMAIN d \cup {key} |-> IF k = key THEN value ELSE d[k]]

Max(a, b) == IF a >= b THEN a ELSE b
Min(a, b) == IF a <= b THEN a ELSE b

\* AdhocNetworkWithMinimumDegree with the one switch built only when
\* max_degree exceeds N
AdhocNetworkStrictDegree(left_nodes, right_nodes, degree) ==
    LET N == Max(Len(left_nodes), Len(right_nodes))
    IN  IF N < 2 THEN Raise("ValueError")
        ELSE IF degree > N THEN Ok(<<Switch2(Range(left_nodes), Range(right_nodes))>>)
        ELSE Ok(<< >>)

\* AdhocNetworkWithMinimumDegree with the one switch built up to
\* N = max_degree + 1
AdhocNetworkLooseDegree(left_nodes, right_nodes, degree) ==
    LET N == Max(Len(left_nodes), Len(right_nodes))
    IN  IF N < 2 THEN Raise("ValueError")
        ELSE IF degree + 1 >= N THEN Ok(<<Switch2(Range(left_nodes), Range(right_nodes))>>)
        ELSE Ok(<< >>)

\* AdhocNetworkWithMinimumDegree.implement_if_small
AdhocNetworkWithMinimumDegree(left_nodes, right_nodes, degree) ==
    LET N == Max(Len(left_nodes), Len(right_nodes))
    IN  IF N < 2 THEN Raise("ValueError")
        ELSE IF degree >= N THEN Ok(<<Switch2(Range(left_nodes), Range(right_nodes))>>)
        ELSE Ok(<< >>)

\* ClosNetworkWithMaxDegree._implement_if_small
MaxDegree_implement_if_small(left_nodes, right_nodes, degree) ==
    IF degree = None THEN Raise("RuntimeError")
    ELSE AdhocNetworkWithMinimumDegree(left_nodes, right_nodes, Val(degree))

RECURSIVE MaxDegree_cost(_, _, _)
RECURSIVE MaxDegree_sizes_loop(_, _, _, _, _)

\* ClosNetworkWithMaxDegree._calc_num_elements
MaxDegree_elements(n, r, c) == [err |-> c.err, v |-> c.v * n + r * 2, memo |-> c.memo]
MaxDegree_calc_num_elements(N, n, r, degree, memo) ==
    MaxDegree_elements(n, r, MaxDegree_cost(r, degree, memo))

\* min(nr_list, key=...) of line 94: the keys are computed for n = 2, 3, ...
\* in turn and the first smallest one wins; best = [n, r, key] or None
\* the candidate (n, r) of key c.v against the best one so far
MaxDegree_sizes_next(N, n, r, degree, best, c) ==
    IF c.err # "none" THEN [err |-> c.err, n |-> 0, r |-> 0, memo |-> c.memo]
    ELSE MaxDegree_sizes_loop(N, n + 1, degree, c.memo,
            IF best = None \/ c.v < Val(best).key
            THEN Some([n |-> n, r |-> r, key |-> c.v]) ELSE best)

MaxDegree_sizes_loop(N, n, degree, memo, best) ==
    IF n > Val(degree)
    THEN [err |-> "none", n |-> Val(best).n, r |-> Val(best).r, memo |-> memo]
    ELSE MaxDegree_sizes_next(N, n, (N + n - 1) \div n, degree, best,
            MaxDegree_calc_num_elements(N, n, (N + n - 1) \div n, degree, memo))

\* ClosNetworkWithMaxDegree._determine_channel_sizes
MaxDegree_determine_channel_sizes(N_left, N_right, degree, memo) ==
    IF degree = None THEN [err |-> "RuntimeError", n |-> 0, r |-> 0, memo |-> memo]
    ELSE MaxDegree_sizes_loop(Max(N_left, N_right), 2, degree, memo, None)

\* MaxDegree_cost_store with a memo entry that is not the cost returned
MaxDegree_cost_store_other(N, c) ==
    IF c.err # "none" THEN [err |-> c.err, v |-> 0, memo |-> c.memo]
    ELSE [err |-> "none", v |-> c.v, memo |-> DictSet(c.memo, N, c.v + 1)]

\* ClosNetworkWithMaxDegree._get_estimated_cost_and_implementation
\* line 82: the cost c of the network split as chosen is stored
MaxDegree_cost_store(N, c) ==
    IF c.err # "none" THEN [err |-> c.err, v |-> 0, memo |-> c.memo]
    ELSE [err |-> "none", v |-> c.v, memo |-> DictSet(c.memo, N, c.v)]

\* lines 81-82: the network is split into the sizes d
MaxDegree_cost_split(N, degree, d) ==
    IF d.err # "none" THEN [err |-> d.err, v |-> 0, memo |-> d.memo]
    ELSE MaxDegree_cost_store(N, MaxDegree_calc_num_elements(N, d.n, d.r, degree, d.memo))

\* lines 78-80: adhoc is what _implement_if_small returned
MaxDegree_cost_adhoc(N, degree, memo, adhoc) ==
    IF adhoc.err # "none" THEN [err |-> adhoc.err, v |-> 0, memo |-> memo]
    ELSE IF adhoc.val # << >>
    THEN [err |-> "none", v |-> Len(adhoc.val), memo |-> DictSet(memo, N, Len(adhoc.val))]
    ELSE MaxDegree_cost_split(N, degree,
            MaxDegree_determine_channel_sizes(N, N, degree, memo))

MaxDegree_cost(N, degree, memo) ==
    IF N \in DOMAIN memo THEN [err |-> "none", v |-> memo[N], memo |-> memo]
    ELSE MaxDegree_cost_adhoc(N, degree, memo,
            MaxDegree_implement_if_small([k \in 1..N |-> "L" \o ToString(k - 1)],
                                         [k \in 1..N |-> "R" \o ToString(k - 1)],
                                         degree))

-----------------------------------------------------------------------------
(* networks/clos_network_minimum_edge.py: cost model of the min-edge variant.
   The class state is memo = [is_small, edges] (is_small_dict,
   num_logical_edges_dict). *)

RECURSIVE MinEdge_cost(_, _)
RECURSIVE MinEdge_sizes_loop(_, _, _, _)
RECURSIVE MinEdge_exterior(_, _, _, _)

\* the loop of lines 17-21 from r_idx on
MinEdge_exterior(N, n, r, r_idx) ==
    IF r_idx >= r THEN 0
    ELSE LET input_start_idx == (N * r_idx) \div r
             input_end_idx == (N * (r_idx + 1)) \div r
             total_nodes == input_end_idx - input_start_idx + n
         IN  (total_nodes * (total_nodes - 1)) \div 2 + MinEdge_exterior(N, n, r, r_idx + 1)

\* ClosNetworkMinimumEdge._calc_num_logical_edges
MinEdge_edges(N, n, r, c) ==
    [err |-> c.err, v |-> MinEdge_exterior(N, n, r, 0) * 2 + c.v * n, memo |-> c.memo]
MinEdge_calc_num_logical_edges(N, n, r, memo) ==
    MinEdge_edges(N, n, r, MinEdge_cost(r, memo))

\* the candidate (n, r) of key c.v against the best one so far
MinEdge_sizes_next(N, n, r, best, c) ==
    IF c.err # "none" THEN [err |-> c.err, n |-> 0, r |-> 0, memo |-> c.memo]
    ELSE MinEdge_sizes_loop(N, n + 1, c.memo,
            IF best = None \/ c.v < Val(best).key
            THEN Some([n |-> n, r |-> r, key |-> c.v]) ELSE best)

\* min(nr_list, key=...) of line 42 over n = 2 .. N-1
MinEdge_sizes_loop(N, n, memo, best) ==
    IF n >= N
    THEN IF best = None THEN [err |-> "ValueError", n |-> 0, r |-> 0, memo |-> memo]
         ELSE [err |-> "none", n |-> Val(best).n, r |-> Val(best).r, memo |-> memo]
    ELSE MinEdge_sizes_next(N, n, (N + n - 1) \div n, best,
            MinEdge_calc_num_logical_edges(N, n, (N + n - 1) \div n, memo))

\* ClosNetworkMinimumEdge._determine_channel_sizes
MinEdge_determine_channel_sizes(N_left, N_right, memo) ==
    MinEdge_sizes_loop(Max(N_left, N_right), 2, memo, None)

\* ClosNetworkMinimumEdge._get_estimated_cost_and_implementation:
\* v is the cost, small the implementation flag
\* lines 30-32: the cost c of the split network against the clique's
MinEdge_cost_store(N, cost_clique, c) ==
    IF c.err # "none" THEN [err |-> c.err, v |-> 0, small |-> FALSE, memo |-> c.memo]
    ELSE [err |-> "none",
          v |-> Min(cost_clique, c.v),
          small |-> cost_clique <= c.v,
          memo |-> [is_small |-> DictSet(c.memo.is_small, N, cost_clique <= c.v),
                    edges |-> DictSet(c.memo.edges, N, Min(cost_clique, c.v))]]

\* lines 28-29: the network is split into the sizes d
MinEdge_cost_split(N, d) ==
    IF d.err # "none" THEN [err |-> d.err, v |-> 0, small |-> FALSE, memo |-> d.memo]
    ELSE MinEdge_cost_store(N, N * (N * 2 - 1),
            MinEdge_calc_num_logical_edges(N, d.n, d.r, d.memo))

MinEdge_cost(N, memo) ==
    IF N \in DOMAIN memo.edges
    THEN [err |-> "none", v |-> memo.edges[N], small |-> memo.is_small[N], memo |-> memo]
    ELSE MinEdge_cost_split(N, MinEdge_determine_channel_sizes(N, N, memo))

\* the class attributes as the module is loaded (lines 9-10)
MinEdgeInitial ==
    [is_small |-> (0 :> TRUE @@ 1 :> TRUE @@ 2 :> TRUE),
     edges |-> (0 :> 0 @@ 1 :> 0 @@ 2 :> 6)]

-----------------------------------------------------------------------------
(* networks/clos_network_base.py: the recursive Clos template, shared by
   BenesNetwork, ClosNetworkWithMaxDegree and ClosNetworkMinimumEdge.
   cls names the class; cs = [max_degree, num_elements_dict, min_edge] is
   the state of the classes, threaded through the hooks.  The hook that
   picks (n, r) is _determine_channel_sizes in the template and in the two
   Clos classes and _determine_switch_sizes in BenesNetwork: the same hook
   under the names of two drafts. *)

BENES_CLS == "BenesNetwork"
MAX_DEGREE_CLS == "ClosNetworkWithMaxDegree"
MIN_EDGE_CLS == "ClosNetworkMinimumEdge"

\* s[i] with a Python index (negative counts from the end)
PyAt(s, i) == IF i < 0 THEN s[Len(s) + i + 1] ELSE s[i + 1]

RECURSIVE BenesDouble(_, _, _)
\* the loop of benes lines 27-28
BenesDouble(n, r, N) == IF n * r < N THEN BenesDouble(n, r * 2, N) ELSE r

\* BenesNetwork._determine_switch_sizes: (n, r); the template never calls it
Benes_determine_switch_sizes(N_left, N_right) ==
    <<2, BenesDouble(2, 1, Max(N_left, N_right))>>

\* cls._implement_if_small: [err, val, cs]; val = << >> stands for both
\* None and the empty list, which line 33 does not tell apart
\* ClosNetworkMinimumEdge._implement_if_small, c being the estimated cost
MinEdge_implement_if_small(left_names, right_names, cs, c) ==
    [err |-> c.err,
     val |-> IF c.err = "none" /\ c.small
             THEN <<Switch2(Range(left_names), Range(right_names))>> ELSE << >>,
     cs |-> [cs EXCEPT !.min_edge = c.memo]]

\* a result that leaves the class state as it is
Pure(res, cs) == [err |-> res.err, val |-> res.val, cs |-> cs]

implement_if_small(cls, left_names, right_names, cs) ==
    CASE cls = BENES_CLS ->
            [err |-> "none",
             val |-> IF Max(Len(left_names), Len(right_names)) <= 2
                     THEN <<Switch2(Range(left_names), Range(right_names))>> ELSE << >>,
             cs |-> cs]
      [] cls = MAX_DEGREE_CLS ->
            Pure(MaxDegree_implement_if_small(left_names, right_names, cs.max_degree), cs)
      [] cls = MIN_EDGE_CLS ->
            MinEdge_implement_if_small(left_names, right_names, cs,
                MinEdge_cost(Max(Len(left_names), Len(right_names)), cs.min_edge))

\* the sizes d with the class state they leave
MaxDegree_sizes(cs, d) ==
    [err |-> d.err, n |-> d.n, r |-> d.r, cs |-> [cs EXCEPT !.num_elements_dict = d.memo]]
MinEdge_sizes(cs, d) ==
    [err |-> d.err, n |-> d.n, r |-> d.r, cs |-> [cs EXCEPT !.min_edge = d.memo]]

\* the hook that determines (n, r): [err, n, r, cs]
determine_channel_sizes(cls, N_left, N_right, cs) ==
    CASE cls = BENES_CLS ->
            \* BenesNetwork defines _determine_switch_sizes and inherits the
            \* hook of this name from ClosNetworkBase, whose body is pass:
            \* line 38 of the template unpacks None
            [err |-> "TypeError", n |-> 0, r |-> 0, cs |-> cs]
      [] cls = MAX_DEGREE_CLS ->
            MaxDegree_sizes(cs, MaxDegree_determine_channel_sizes(
                                    N_left, N_right, cs.max_degree, cs.num_elements_dict))
      [] cls = MIN_EDGE_CLS ->
            MinEdge_sizes(cs, MinEdge_determine_channel_sizes(N_left, N_right, cs.min_edge))

\* interior_node_names of lines 55-57 and 75-78 for the exterior switch r
InteriorNames(names, size, r, exterior_channel_size, interior_channel_size) ==
    LET index_end == ((r + 1) * size) \div interior_channel_size
    IN  [k \in 1..exterior_channel_size |->
            LET i == exterior_channel_size * r + k - 1
            IN  PyAt(names, Min(i, index_end - 1)) \o "_" \o ToString(i)]

\* names[index_start:index_end] of lines 60 and 82 for the exterior switch r
ExteriorNames(names, size, r, interior_channel_size) ==
    Slice(names, (r * size) \div interior_channel_size,
                 ((r + 1) * size) \div interior_channel_size)

RECURSIVE ClosNetwork(_, _, _, _)
RECURSIVE ClosMiddle(_, _, _, _, _, _, _)

\* the loop of lines 98-112 from i_start on: acc = [err, val, cs]
ClosMiddleNext(cls, ingress_stage_nodes, egress_stage_nodes, n, size, i_start, acc, sub) ==
    ClosMiddle(cls, ingress_stage_nodes, egress_stage_nodes, n, size, i_start + 1,
               [err |-> sub.err, val |-> acc.val \o sub.val, cs |-> sub.cs])

ClosMiddle(cls, ingress_stage_nodes, egress_stage_nodes, n, size, i_start, acc) ==
    IF i_start >= n \/ acc.err # "none" THEN acc
    ELSE ClosMiddleNext(cls, ingress_stage_nodes, egress_stage_nodes, n, size, i_start, acc,
            ClosNetwork(cls,
                        Stride(ingress_stage_nodes, i_start, size, n),
                        Stride(egress_stage_nodes, i_start, size, n),
                        acc.cs))

\* ClosJoin without the egress stage
ClosJoinNoEgress(ingress_stage_channels, egress_stage_channels, middle) ==
    IF middle.err # "none" THEN [err |-> middle.err, val |-> << >>, cs |-> middle.cs]
    ELSE [err |-> "none", val |-> ingress_stage_channels \o middle.val, cs |-> middle.cs]

\* line 115: the three stages in order
ClosJoin(ingress_stage_channels, egress_stage_channels, middle) ==
    IF middle.err # "none" THEN [err |-> middle.err, val |-> << >>, cs |-> middle.cs]
    ELSE [err |-> "none",
          val |-> ingress_stage_channels \o middle.val \o egress_stage_channels,
          cs |-> middle.cs]

\* lines 44-85: the ingress and egress stages over the interior names
ClosStages(cls, left_names, right_names, exterior_channel_size, interior_channel_size, ingress_names, egress_names, cs) ==
    ClosJoin([k \in 1..interior_channel_size |->
                Switch2(Range(ExteriorNames(left_names, Len(left_names), k - 1,
                                            interior_channel_size)),
                        Range(ingress_names[k]))],
             [k \in 1..interior_channel_size |->
                Switch2(Range(egress_names[k]),
                        Range(ExteriorNames(right_names, Len(right_names), k - 1,
                                            interior_channel_size)))],
             ClosMiddle(cls, Concat(ingress_names), Concat(egress_names),
                        exterior_channel_size,
                        exterior_channel_size * interior_channel_size, 0,
                        [err |-> "none", val |-> << >>, cs |-> cs]))

\* lines 38-41: d is what the hook that determines (n, r) returned
ClosSplit(cls, left_names, right_names, d) ==
    IF d.err # "none" THEN [err |-> d.err, val |-> << >>, cs |-> d.cs]
    ELSE IF Max(Len(left_names), Len(right_names)) > d.n * d.r
    THEN [err |-> "ValueError", val |-> << >>, cs |-> d.cs]
    ELSE ClosStages(cls, left_names, right_names, d.n, d.r,
                    [k \in 1..d.r |->
                        InteriorNames(left_names, Len(left_names), k - 1, d.n, d.r)],
                    [k \in 1..d.r |->
                        InteriorNames(right_names, Len(right_names), k - 1, d.n, d.r)],
                    d.cs)

\* lines 33-34: small is what _implement_if_small returned
ClosSmall(cls, left_names, right_names, small) ==
    IF small.err # "none" THEN [err |-> small.err, val |-> << >>, cs |-> small.cs]
    ELSE IF small.val # << >> THEN small
    ELSE ClosSplit(cls, left_names, right_names,
                   determine_channel_sizes(cls, Len(left_names), Len(right_names), small.cs))

\* ClosNetworkBase._generate_original_network on the names of the nodes
ClosNetwork(cls, left_names, right_names, cs) ==
    ClosSmall(cls, left_names, right_names,
              implement_if_small(cls, left_names, right_names, cs))

-----------------------------------------------------------------------------
(* networks/divide_and_conquer_network.py *)

\* NodesOf that files every node that is not ALWAYS_ONE under ALWAYS_ZERO
NodesOfTwoKinds(right_nodes, a) ==
    LET Test(node) ==
            \/ a = ALWAYS_ONE /\ node.attribute = ALWAYS_ONE
            \/ a = ALWAYS_ZERO /\ node.attribute # ALWAYS_ONE
    IN  SelectSeq(right_nodes, Test)

\* node_dict[a]: the right nodes of attribute a, in their order
NodesOf(right_nodes, a) ==
    LET Test(node) == node.attribute = a IN SelectSeq(right_nodes, Test)

\* DirectSwitches as one switch over the whole boundary
DirectSwitchesDense(left_nodes, right_nodes) ==
    <<Switch2(Range(Names(left_nodes)), Range(Names(right_nodes)))>>

\* lines 45-51: one switch ({left}, {right}) per zipped pair of nodes
DirectSwitches(left_nodes, right_nodes) ==
    [k \in 1..Len(left_nodes) |-> Switch2({left_nodes[k].name}, {right_nodes[k].name})]

RECURSIVE DivideAndConquerNetwork(_, _, _)
\* DivideAndConquerNetwork._generate_original_network; threshold is None
\* or {t}
DivideAndConquerNetwork(left_nodes, right_nodes, threshold) ==
    LET num_variables == Len(left_nodes)
        zeros == NodesOf(right_nodes, ALWAYS_ZERO)
        ones == NodesOf(right_nodes, ALWAYS_ONE)
        half == CeilHalf(num_variables)
        ones_half == CeilHalf(Len(ones))
        aux0 == [k \in 1..num_variables |->
                    VariableNode(left_nodes[k].name \o "_" \o ToString(k - 1), ZERO_OR_ONE)]
        swaps == [k \in 1..(num_variables \div 2) |->
                    Switch2({left_nodes[k].name, left_nodes[k + half].name},
                            {aux0[k].name, aux0[k + half].name})]
        \* line 103: the wire without a swap is passed on as it is
        aux_nodes == IF num_variables % 2 = 1
                     THEN [aux0 EXCEPT ![num_variables \div 2 + 1] =
                                            left_nodes[num_variables \div 2 + 1]]
                     ELSE aux0
        upper == DivideAndConquerNetwork(
                    Slice(aux_nodes, 0, half),
                    Slice(ones, 0, ones_half) \o Slice(zeros, 0, half - ones_half),
                    threshold)
        lower == DivideAndConquerNetwork(
                    Slice(aux_nodes, half, num_variables),
                    Slice(ones, ones_half, Len(ones))
                        \o Slice(zeros, half - ones_half, Len(zeros)),
                    threshold)
    IN  IF Len(left_nodes) # Len(right_nodes) THEN Raise("ValueError")
        ELSE IF Len(NodesOf(right_nodes, ZERO_OR_ONE)) # 0 THEN Raise("ValueError")
        ELSE IF Len(NodesOf(right_nodes, NOT_CARE)) # 0 THEN Raise("ValueError")
        ELSE IF Len(zeros) + Len(ones) # num_variables THEN Raise("ValueError")
        ELSE IF \E k \in 1..num_variables : left_nodes[k].attribute # ZERO_OR_ONE
        THEN Raise("ValueError")
        ELSE IF Len(zeros) = num_variables \/ Len(ones) = num_variables
        THEN Ok(DirectSwitches(left_nodes, right_nodes))
        ELSE IF Len(ones) = 1 THEN BubbleSortNetwork(left_nodes, zeros \o ones)
        ELSE IF Len(zeros) = 1 THEN BubbleSortNetwork(left_nodes, ones \o zeros)
        ELSE IF threshold # None /\ num_variables <= Val(threshold)
        THEN Ok(<<Switch2(Range(Names(left_nodes)), Range(Names(right_nodes)))>>)
        ELSE IF upper.err # "none" THEN upper
        ELSE IF lower.err # "none" THEN lower
        ELSE Ok(swaps \o upper.val \o lower.val)

-----------------------------------------------------------------------------
(* core/constraint.py: get_constraint_switches *)

NAIVE == "naive"
BENES == "benes"
BITONIC_SORT == "bitonic_sort"
BUBBLE_SORT == "bubble_sort"
CLOS_NETWORK_MAX_DEGREE == "clos_network_max_degree"
CLOS_NETWORK_MIN_EDGE == "clos_network_min_edge"
DIVIDE_AND_CONQUER == "divide_and_conquer"
ODDEVEN_MERGE_SORT == "oddeven_merge_sort"
NetworkType == {NAIVE, BENES, BITONIC_SORT, BUBBLE_SORT, CLOS_NETWORK_MAX_DEGREE,
                CLOS_NETWORK_MIN_EDGE, DIVIDE_AND_CONQUER, ODDEVEN_MERGE_SORT}

\* exponentiation=True at lines 157, 160 and 183
NeedsPadding(network_type) == network_type \in {BENES, BITONIC_SORT, ODDEVEN_MERGE_SORT}

\* CliqueNetwork is no NetworkType of the front-end; the class is called
\* directly
CLIQUE == "CliqueNetwork"

\* CliqueNetwork with a switch that leaves the right boundary out
CliqueNetworkNoRight(left_nodes, right_nodes) ==
    Ok(<<Switch2(Range(Names(left_nodes)), {})>>)

\* networks/clique_network.py: CliqueNetwork._generate_original_network
CliqueNetwork(left_nodes, right_nodes) ==
    Ok(<<Switch2(Range(Names(left_nodes)), Range(Names(right_nodes)))>>)

\* cls._generate_original_network of the class a network type selects:
\* [err, val, cs]
generate_original_network(network_type, left_nodes, right_nodes, threshold, reverse, cs) ==
        CASE network_type = BENES ->
                ClosNetwork(BENES_CLS, Names(left_nodes), Names(right_nodes), cs)
          [] network_type = BITONIC_SORT ->
                Pure(BitonicSortNetwork(left_nodes, right_nodes, reverse), cs)
          [] network_type = BUBBLE_SORT ->
                Pure(BubbleSortNetwork(left_nodes, right_nodes), cs)
          [] network_type = CLIQUE ->
                Pure(CliqueNetwork(left_nodes, right_nodes), cs)
          [] network_type = CLOS_NETWORK_MAX_DEGREE ->
                ClosNetwork(MAX_DEGREE_CLS, Names(left_nodes), Names(right_nodes), cs)
          [] network_type = CLOS_NETWORK_MIN_EDGE ->
                ClosNetwork(MIN_EDGE_CLS, Names(left_nodes), Names(right_nodes), cs)
          [] network_type = DIVIDE_AND_CONQUER ->
                Pure(DivideAndConquerNetwork(left_nodes, right_nodes, threshold), cs)
          [] network_type = ODDEVEN_MERGE_SORT ->
                Pure(OddEvenMergeSortNetwork(left_nodes, right_nodes, reverse), cs)

\* DefaultPrefix that ignores the counter
DefaultPrefixStuck(n) == "C" \o ToString(0)

\* the default prefix f"C{_constraint_prefix_counter!s}"
DefaultPrefix(n) == "C" \o ToString(n)

\* get_constraint_switches: [err, val, prefix, counter, cs], where counter
\* and cs are the module counter and the class state after the call
\* line 189: the network is simplified and its auxiliary variables
\* renamed; original = [err, val, cs] is the raw network
get_constraint_switches_finish(variables, prefix, counter1, switches, cs) ==
    IF switches.err # "none"
    THEN [err |-> switches.err, val |-> << >>, prefix |-> prefix,
          counter |-> counter1, cs |-> cs]
    ELSE [err |-> "none",
          val |-> _prefix_auxiliary_variables(switches.val, Range(variables), prefix),
          prefix |-> prefix, counter |-> counter1, cs |-> cs]

\* generate_network of lines 158-186 on the raw network
get_constraint_switches_network(variables, right_nodes, reverse, prefix, counter1, original) ==
    get_constraint_switches_finish(variables, prefix, counter1,
        generate_network(original, right_nodes, reverse), original.cs)

\* lines 155-186 on the boundary nodes
get_constraint_switches_nodes(variables, network_type, threshold, reverse, prefix, counter1, cs, nodes) ==
    IF nodes.err # "none"
    THEN [err |-> nodes.err, val |-> << >>, prefix |-> prefix,
          counter |-> counter1, cs |-> cs]
    ELSE get_constraint_switches_network(variables, nodes.val.right, reverse, prefix, counter1,
            generate_original_network(network_type, nodes.val.left, nodes.val.right,
                                      threshold, reverse, cs))

\* get_constraint_switches with the network type looked at before the
\* counter is advanced
get_constraint_switches_checks_first(variables, constraint_type, network_type, c1, c2, threshold, reverse, var_prefix, cnt, cs) ==
    LET prefix == IF var_prefix = None THEN DefaultPrefix(cnt) ELSE Val(var_prefix)
        counter1 == IF var_prefix = None THEN cnt + 1 ELSE cnt
    IN  IF network_type \notin NetworkType \ {NAIVE}
        THEN [err |-> "NotImplementedError", val |-> << >>, prefix |-> prefix,
              counter |-> cnt, cs |-> cs]
        ELSE get_constraint_switches_nodes(variables, network_type, threshold, reverse,
                prefix, counter1, cs,
                get_initial_nodes(variables, constraint_type, c1, c2,
                                  NeedsPadding(network_type)))

get_constraint_switches(variables, constraint_type, network_type, c1, c2, threshold, reverse, var_prefix, cnt, cs) ==
    LET prefix == IF var_prefix = None THEN DefaultPrefix(cnt) ELSE Val(var_prefix)
        counter1 == IF var_prefix = None THEN cnt + 1 ELSE cnt
    IN  IF network_type \notin NetworkType \ {NAIVE}
        THEN [err |-> "NotImplementedError", val |-> << >>, prefix |-> prefix,
              counter |-> counter1, cs |-> cs]
        ELSE get_constraint_switches_nodes(variables, network_type, threshold, reverse,
                prefix, counter1, cs,
                get_initial_nodes(variables, constraint_type, c1, c2,
                                  NeedsPadding(network_type)))

-----------------------------------------------------------------------------
(* ClosNetworkWithMaxDegree.reset_max_degree *)

\* reset_max_degree without line 64: the memo survives the new max_degree
reset_max_degree_keeps_memo(new_max, degree, memo) ==
    IF new_max < 2
    THEN [err |-> "ValueError", max_degree |-> degree, num_elements_dict |-> memo]
    ELSE [err |-> "none", max_degree |-> Some(new_max), num_elements_dict |-> memo]

\* [err, max_degree, num_elements_dict] after reset_max_degree(new_max)
reset_max_degree(new_max, degree, memo) ==
    IF new_max < 2
    THEN [err |-> "ValueError", max_degree |-> degree, num_elements_dict |-> memo]
    ELSE [err |-> "none", max_degree |-> Some(new_max), num_elements_dict |-> << >>]

-----------------------------------------------------------------------------
(* The state machine: the module and class state, and a caller that invokes
   the public operations one at a time and holds what the last two returned. *)

NoCall ==
    [op |-> "none", variables |-> << >>, constraint_type |-> "", network_type |-> "",
     c1 |-> None, c2 |-> None, threshold |-> None, reverse |-> FALSE,
     var_prefix |-> None, exponentiation |-> FALSE, new_max |-> 0,
     switches |-> << >>, original_variables |-> {},
     left_nodes |-> << >>, right_nodes |-> << >>,
     raw |-> [err |-> "none", val |-> << >>],
     err |-> "none", val |-> << >>, prefix |-> ""]

\* the state of the classes a constructor reads and writes
ClassState ==
    [max_degree |-> max_degree, num_elements_dict |-> num_elements_dict,
     min_edge |-> [is_small |-> is_small_dict, edges |-> num_logical_edges_dict]]

\* the state right after the modules are loaded
Loaded ==
    /\ counter = 0
    /\ max_degree = None
    /\ num_elements_dict = << >>
    /\ is_small_dict = MinEdgeInitial.is_small
    /\ num_logical_edges_dict = MinEdgeInitial.edges
    /\ ret = NoCall
    /\ prev = NoCall
    /\ handed = << >>

\* get_constraint_switches returns r to the caller
ReturnConstraintSwitches(variables, constraint_type, network_type, c1, c2, threshold, reverse, var_prefix, r) ==
    /\ counter' = r.counter
    /\ max_degree' = r.cs.max_degree
    /\ num_elements_dict' = r.cs.num_elements_dict
    /\ is_small_dict' = r.cs.min_edge.is_small
    /\ num_logical_edges_dict' = r.cs.min_edge.edges
    /\ ret' = [NoCall EXCEPT !.op = "get_constraint_switches",
                             !.variables = variables,
                             !.constraint_type = constraint_type,
                             !.network_type = network_type,
                             !.c1 = c1, !.c2 = c2, !.threshold = threshold,
                             !.reverse = reverse, !.var_prefix = var_prefix,
                             !.err = r.err, !.val = r.val, !.prefix = r.prefix]
    /\ prev' = ret
    /\ handed' = IF var_prefix = None THEN Append(handed, r.prefix) ELSE handed

\* a call of get_constraint_switches
GetConstraintSwitches(variables, constraint_type, network_type, c1, c2, threshold, reverse, var_prefix) ==
    ReturnConstraintSwitches(variables, constraint_type, network_type, c1, c2,
        threshold, reverse, var_prefix,
        get_constraint_switches(variables, constraint_type, network_type, c1, c2,
                                threshold, reverse, var_prefix, counter, ClassState))

\* get_initial_nodes returns r to the caller
ReturnInitialNodes(variables, constraint_type, c1, c2, exponentiation, r) ==
    /\ ret' = [NoCall EXCEPT !.op = "get_initial_nodes",
                             !.variables = variables,
                             !.constraint_type = constraint_type,
                             !.c1 = c1, !.c2 = c2,
                             !.exponentiation = exponentiation,
                             !.err = r.err, !.val = r.val]
    /\ prev' = ret
    /\ UNCHANGED <<counter, max_degree, num_elements_dict, is_small_dict,
                   num_logical_edges_dict, handed>>

\* a call of get_initial_nodes
GetInitialNodes(variables, constraint_type, c1, c2, exponentiation) ==
    ReturnInitialNodes(variables, constraint_type, c1, c2, exponentiation,
        get_initial_nodes(variables, constraint_type, c1, c2, exponentiation))

\* cls.generate_network returns: original is what cls._generate_original_network
\* gave (line 51), r what the driver made of it
ReturnNetwork(network_type, left_nodes, right_nodes, threshold, reverse, original, r) ==
    /\ max_degree' = original.cs.max_degree
    /\ num_elements_dict' = original.cs.num_elements_dict
    /\ is_small_dict' = original.cs.min_edge.is_small
    /\ num_logical_edges_dict' = original.cs.min_edge.edges
    /\ ret' = [NoCall EXCEPT !.op = "generate_network",
                             !.network_type = network_type,
                             !.left_nodes = left_nodes,
                             !.right_nodes = right_nodes,
                             !.threshold = threshold,
                             !.reverse = reverse,
                             !.raw = [err |-> original.err, val |-> original.val],
                             !.err = r.err, !.val = r.val]
    /\ prev' = ret
    /\ UNCHANGED <<counter, handed>>

\* the driver on the raw network
SimplifyNetwork(network_type, left_nodes, right_nodes, threshold, reverse, original) ==
    ReturnNetwork(network_type, left_nodes, right_nodes, threshold, reverse, original,
                  generate_network(original, right_nodes, reverse))

\* a call of cls.generate_network(left_nodes, right_nodes, threshold, reverse)
\* on the class of network_type
GenerateNetwork(network_type, left_nodes, right_nodes, threshold, reverse) ==
    SimplifyNetwork(network_type, left_nodes, right_nodes, threshold, reverse,
        generate_original_network(network_type, left_nodes, right_nodes,
                                  threshold, reverse, ClassState))

\* the driver run on a given raw network: generate_network of a class
\* whose _generate_original_network returns `network`
Simplify(network, right_nodes, reverse) ==
    LET r == generate_network(Ok(network), right_nodes, reverse)
    IN  /\ ret' = [NoCall EXCEPT !.op = "simplify",
                                 !.right_nodes = right_nodes,
                                 !.reverse = reverse,
                                 !.raw = Ok(network),
                                 !.err = r.err, !.val = r.val]
        /\ prev' = ret
        /\ UNCHANGED <<counter, max_degree, num_elements_dict, is_small_dict,
                       num_logical_edges_dict, handed>>

\* a call of Switch.to_qubo
ToQubo(switches) ==
    /\ ret' = [NoCall EXCEPT !.op = "to_qubo", !.switches = switches,
                             !.val = to_qubo(switches)]
    /\ prev' = ret
    /\ UNCHANGED <<counter, max_degree, num_elements_dict, is_small_dict,
                   num_logical_edges_dict, handed>>

\* a call of _prefix_auxiliary_variables
PrefixAuxiliaryVariables(switches, original_variables, prefix) ==
    /\ ret' = [NoCall EXCEPT !.op = "_prefix_auxiliary_variables",
                             !.switches = switches,
                             !.original_variables = original_variables,
                             !.prefix = prefix,
                             !.val = _prefix_auxiliary_variables(switches,
                                        original_variables, prefix)]
    /\ prev' = ret
    /\ UNCHANGED <<counter, max_degree, num_elements_dict, is_small_dict,
                   num_logical_edges_dict, handed>>

\* a call of reset_constraint_prefix_counter
ResetConstraintPrefixCounter ==
    /\ counter' = 0
    /\ handed' = << >>
    /\ ret' = [NoCall EXCEPT !.op = "reset_constraint_prefix_counter"]
    /\ prev' = ret
    /\ UNCHANGED <<max_degree, num_elements_dict, is_small_dict, num_logical_edges_dict>>

\* a call of ClosNetworkWithMaxDegree.reset_max_degree
ResetMaxDegree(new_max) ==
    LET r == reset_max_degree(new_max, max_degree, num_elements_dict)
    IN  /\ max_degree' = r.max_degree
        /\ num_elements_dict' = r.num_elements_dict
        /\ ret' = [NoCall EXCEPT !.op = "reset_max_degree", !.new_max = new_max,
                                 !.err = r.err]
        /\ prev' = ret
        /\ UNCHANGED <<counter, is_small_dict, num_logical_edges_dict, handed>>

\* the caller drops the results it holds
Discard ==
    /\ ret.op # "none"
    /\ ret' = NoCall
    /\ prev' = NoCall
    /\ UNCHANGED <<counter, max_degree, num_elements_dict, is_small_dict,
                   num_logical_edges_dict, handed>>

-----------------------------------------------------------------------------
(* What a switch list accepts *)

SwitchVars(sw) == sw.left_nodes \cup sw.right_nodes
AllVars(switches) == UNION {SwitchVars(switches[k]) : k \in 1..Len(switches)}

\* the switch holds at the assignment that sets exactly `ones` to 1
Holds(sw, ones) ==
    Cardinality(sw.left_nodes \cap ones) + sw.left_constant
    = Cardinality(sw.right_nodes \cap ones) + sw.right_constant

\* (sum L + cL - sum R - cR)^2
Residual2(sw, ones) ==
    LET d == Cardinality(sw.left_nodes \cap ones) + sw.left_constant
             - Cardinality(sw.right_nodes \cap ones) - sw.right_constant
    IN  d * d

RECURSIVE SumResidual2(_, _, _)
SumResidual2(switches, ones, k) ==
    IF k > Len(switches) THEN 0
    ELSE Residual2(switches[k], ones) + SumResidual2(switches, ones, k + 1)

RECURSIVE Project(_, _, _, _, _)
\* The assignments of the variables of `keep` that extend to all variables
\* so that every switch from the k-th on holds, given the set S of partial
\* assignments (over the variables V met so far) under which the switches
\* before k hold.  A variable no later switch mentions is forgotten as soon
\* as it is not in `keep`.
Project(switches, k, S, V, keep) ==
    IF k > Len(switches) THEN S
    ELSE LET sw == switches[k]
             new == SwitchVars(sw) \ V
             later == UNION {SwitchVars(switches[j]) : j \in (k + 1)..Len(switches)}
             drop == (V \cup new) \ (later \cup keep)
             S1 == {b \in {a \cup n : a \in S, n \in SUBSET new} : Holds(sw, b)}
         IN  Project(switches, k + 1, {b \ drop : b \in S1}, (V \cup new) \ drop, keep)

\* the assignments of the user variables (as sets of variables set to 1)
\* under which the auxiliary variables can be chosen so that every switch
\* holds; a user variable no switch mentions is free
Accepted(switches, user) ==
    LET inside == user \cap AllVars(switches)
        P == Project(switches, 1, {{}}, {}, inside)
    IN  {x \in SUBSET user : (x \cap inside) \in P}

\* min over the auxiliary variables of the QUBO at the user assignment x
MinOverAux(q, x, user) ==
    LET E == {Energy(q, x \cup a) : a \in SUBSET (q.variables \ user)}
    IN  CHOOSE m \in E : \A e \in E : m <= e

\* the sums the constraint allows
Satisfies(sum, constraint_type, c1, c2) ==
    CASE constraint_type = ONE_HOT -> sum = 1
      [] constraint_type = EQUAL_TO -> sum = Val(c1)
      [] constraint_type = LESS_EQUAL -> sum <= Val(c1)
      [] constraint_type = GREATER_EQUAL -> sum >= Val(c1)
      [] constraint_type = CLAMP -> Val(c1) <= sum /\ sum <= Val(c2)

\* the parameter choices the front-end documents as valid for N variables
ValidParams(N, constraint_type) ==
    CASE constraint_type = ONE_HOT -> {<<None, None>>}
      [] constraint_type = EQUAL_TO -> {<<Some(k), None>> : k \in 0..N}
      [] constraint_type = LESS_EQUAL -> {<<Some(k), None>> : k \in 1..N}
      [] constraint_type = GREATER_EQUAL -> {<<Some(k), None>> : k \in 0..(N - 1)}
      [] constraint_type = CLAMP ->
            {<<Some(p[1]), Some(p[2])>> : p \in {q \in (0..N) \X (0..N) : q[1] <= q[2]}}

-----------------------------------------------------------------------------
(* Bounds of the explored calls *)

MaxN == 4            \* most user variables of a constraint
MaxThreshold == 3    \* largest explicit threshold of the divide-and-conquer network
MaxCounter == 2      \* default prefixes the caller takes before resetting the counter
MaxAux == 6          \* most auxiliary variables for which the QUBO is minimised by enumeration

\* the user variables x0, ..., x{N-1}
XNames(N) == [i \in 1..N |-> "x" \o ToString(i - 1)]

\* the set of names of a variable list
NameSet(variables) == {variables[i] : i \in 1..Len(variables)}

\* the last operation was a get_constraint_switches call on this network
Called(network_type) ==
    ret.op = "get_constraint_switches" /\ ret.network_type = network_type

\* the returned switch list accepts exactly the user assignments the
\* constraint of the call allows
AcceptsConstraint ==
    LET user == NameSet(ret.variables)
    IN  Accepted(ret.val, user)
        = {x \in SUBSET user :
             Satisfies(Cardinality(x), ret.constraint_type, ret.c1, ret.c2)}

\* the QUBO of the returned switch list is over the variables of the list,
\* takes the value of the sum of the squared residuals of the switches (at
\* the user assignments with no, one or every variable set, the auxiliary
\* variables being all 0 or all 1), and
\* its minimum over the auxiliary variables is 0 at the user assignments
\* the constraint allows and at least 1 at the others (enumerated when
\* there are at most MaxAux auxiliary variables)
QuboPenalises ==
    LET user == NameSet(ret.variables)
        q == to_qubo(ret.val)
        aux == q.variables \ user
    IN  /\ q.variables = AllVars(ret.val)
        /\ \A x \in {{}, user} \cup {{v} : v \in user} : \A a \in {{}, aux} :
              Energy(q, x \cup a) = SumResidual2(ret.val, x \cup a, 1)
        /\ Cardinality(aux) <= MaxAux =>
              \A x \in SUBSET user :
                 LET m == MinOverAux(q, x, user)
                 IN  IF Satisfies(Cardinality(x), ret.constraint_type, ret.c1, ret.c2)
                     THEN m = 0 ELSE m >= 1

-----------------------------------------------------------------------------
(* Divide-and-conquer constraints *)

\* most variables of a divide-and-conquer call: 5 is the least size at which
\* an odd number of wires is split (2 ones and 3 zeros, or 3 and 2)
MaxDivideN == 5

\* the variable lists of the divide-and-conquer calls
DivideLists == {XNames(N) : N \in 1..MaxDivideN} \cup {<<"a", "b", "c">>}

DivideAndConquerCall ==
    /\ ret.op = "none"
    /\ counter < MaxCounter
    /\ \E variables \in DivideLists, constraint_type \in ConstraintType,
          threshold \in {None} \cup {Some(t) : t \in 1..MaxThreshold},
          reverse \in BOOLEAN :
         \E p \in ValidParams(Len(variables), constraint_type) :
            GetConstraintSwitches(variables, constraint_type, DIVIDE_AND_CONQUER,
                                  p[1], p[2], threshold, reverse, None)

NextDivideAndConquer ==
    \/ DivideAndConquerCall
    \/ Discard
    \/ ResetConstraintPrefixCounter

SpecDivideAndConquer == Loaded /\ [][NextDivideAndConquer]_vars

ScenarioE1 ==
    /\ Called(DIVIDE_AND_CONQUER)
    /\ ret.variables = <<"a", "b", "c">>
    /\ ret.constraint_type = ONE_HOT
    /\ ret.threshold = None

\* C11 as stated: ONE_HOT on a, b, c over the divide-and-conquer network
\* with no threshold gives the QUBO (a + b + c - 1)^2 and nothing else:
\* linear -1 for a, b and c, quadratic 2 for each of the three pairs,
\* constant 1, no other variable.
C11_ScenarioE1Collapses ==
    ScenarioE1
        => /\ ret.err = "none"
           /\ to_qubo(ret.val) =
                 [variables |-> {"a", "b", "c"},
                  quadratic |-> [pair \in {{"a", "b"}, {"a", "c"}, {"b", "c"}} |-> 2],
                  linear |-> [v \in {"a", "b", "c"} |-> -1],
                  constant |-> 1]

\* C11: ONE_HOT on a, b, c over the divide-and-conquer network with no
\* threshold is the one-hot bubble network after simplification: with p the
\* prefix of the call, t = p_b_0_R1, u = p_b_1_R1 and v = p_a_0_R0, the QUBO
\* is (a + b - t)^2 + (t + c - 1)^2 + u^2 + v^2 over the six variables
\* a, b, c, t, u, v, that is linear 1 for a, b, u, v, -1 for c, 0 for t,
\* quadratic 2 for {a,b} and {t,c}, -2 for {a,t} and {b,t}, constant 1; its
\* minimum over t, u, v is (a + b + c - 1)^2 = 0 exactly at the one-hot
\* assignments of a, b, c and at least 1 elsewhere.
C11_ScenarioE1Bubble ==
    ScenarioE1
        => LET t == ret.prefix \o "_b_0_R1"
               u == ret.prefix \o "_b_1_R1"
               v == ret.prefix \o "_a_0_R0"
           IN  /\ ret.err = "none"
               /\ to_qubo(ret.val) =
                     [variables |-> {"a", "b", "c", t, u, v},
                      quadratic |-> [pair \in {{"a", "b"}, {t, "c"}, {"a", t}, {"b", t}} |->
                                       IF pair \in {{"a", "b"}, {t, "c"}} THEN 2 ELSE -2],
                      linear |-> [n \in {"a", "b", "c", t, u, v} |->
                                    IF n = "c" THEN -1 ELSE IF n = t THEN 0 ELSE 1],
                      constant |-> 1]
               /\ QuboPenalises

\* scenario E1 has returned its four switches
C11_Witness ==
    /\ ScenarioE1
    /\ ret.err = "none"
    /\ Len(ret.val) = 4
    /\ ret.prefix = "C1"
    /\ Cardinality(AllVars(ret.val)) = 6

-----------------------------------------------------------------------------
(* Bubble-sort constraints *)

BubbleSortCall ==
    /\ ret.op = "none"
    /\ counter < MaxCounter
    /\ \E N \in 1..MaxN, constraint_type \in ConstraintType, reverse \in BOOLEAN :
         \E p \in ValidParams(N, constraint_type) :
            GetConstraintSwitches(XNames(N), constraint_type, BUBBLE_SORT,
                                  p[1], p[2], None, reverse, None)

NextBubbleSort ==
    \/ BubbleSortCall
    \/ Discard
    \/ ResetConstraintPrefixCounter

SpecBubbleSort == Loaded /\ [][NextBubbleSort]_vars

\* C2: a bubble-sort call for any of the five constraint kinds with valid
\* parameters on N >= 1 variables returns a switch list that can be
\* satisfied exactly at the user assignments whose sum satisfies the
\* constraint, and whose QUBO has minimum 0 over the auxiliary variables
\* exactly there and at least 1 elsewhere.
C2_BubbleSortExact ==
    Called(BUBBLE_SORT)
        => /\ ret.err = "none"
           /\ AcceptsConstraint
           /\ QuboPenalises

\* the same for N >= 2 only
BubbleSortExactFrom2 ==
    (Called(BUBBLE_SORT) /\ Len(ret.variables) >= 2)
        => /\ ret.err = "none"
           /\ AcceptsConstraint
           /\ QuboPenalises

-----------------------------------------------------------------------------
(* Constraints over the networks that pad the boundary to a power of two *)

PaddedCall ==
    /\ ret.op = "none"
    /\ counter < MaxCounter
    /\ \E N \in 1..MaxN, constraint_type \in ConstraintType, reverse \in BOOLEAN,
          network_type \in {BENES, BITONIC_SORT, ODDEVEN_MERGE_SORT} :
         \E p \in ValidParams(N, constraint_type) :
            GetConstraintSwitches(XNames(N), constraint_type, network_type,
                                  p[1], p[2], None, reverse, None)

NextPadded ==
    \/ PaddedCall
    \/ Discard
    \/ ResetConstraintPrefixCounter

SpecPadded == Loaded /\ [][NextPadded]_vars

\* C3: a call on BENES, BITONIC_SORT or ODDEVEN_MERGE_SORT for any constraint
\* kind with valid parameters on N >= 1 variables, a power of two or not,
\* returns a switch list that can be satisfied (the padding nodes L0, L1, ...
\* being auxiliary) exactly at the user assignments whose sum satisfies the
\* constraint, and whose QUBO has minimum 0 over the auxiliary variables
\* exactly there and at least 1 elsewhere.
C3_PaddedExact ==
    (Called(BENES) \/ Called(BITONIC_SORT) \/ Called(ODDEVEN_MERGE_SORT))
        => /\ ret.err = "none"
           /\ AcceptsConstraint
           /\ QuboPenalises

-----------------------------------------------------------------------------
(* Constraints over the two Clos variants *)

MaxMaxDegree == 3    \* largest max_degree the caller sets
MinEdgeSplitN == 8   \* a size the min-edge variant splits instead of using one switch

ClosSizes(network_type) ==
    IF network_type = CLOS_NETWORK_MIN_EDGE THEN (1..MaxN) \cup {MinEdgeSplitN} ELSE 1..MaxN

ClosCall ==
    /\ ret.op = "none"
    /\ \E network_type \in {CLOS_NETWORK_MAX_DEGREE, CLOS_NETWORK_MIN_EDGE},
          constraint_type \in ConstraintType :
         \E N \in ClosSizes(network_type) :
            \E p \in ValidParams(N, constraint_type) :
               GetConstraintSwitches(XNames(N), constraint_type, network_type,
                                     p[1], p[2], None, FALSE, Some("A"))

ClosResetMaxDegree ==
    /\ ret.op = "none"
    /\ \E new_max \in 0..MaxMaxDegree : ResetMaxDegree(new_max)

NextClos ==
    \/ ClosCall
    \/ ClosResetMaxDegree
    \/ Discard

SpecClos == Loaded /\ [][NextClos]_vars

\* the last operation was a call on a Clos variant that C4 is about:
\* min-edge, or max-degree with max_degree set
ClosCalled ==
    \/ Called(CLOS_NETWORK_MIN_EDGE)
    \/ Called(CLOS_NETWORK_MAX_DEGREE) /\ max_degree # None

C13_MaxDegreeUsable ==
    Called(CLOS_NETWORK_MAX_DEGREE) => ret.err = "none"

\* a front-end call on CLOS_NETWORK_MAX_DEGREE on two or more variables does
\* not raise once max_degree is set
MaxDegreeUsableOnceSet ==
    (Called(CLOS_NETWORK_MAX_DEGREE) /\ max_degree # None /\ Len(ret.variables) >= 2)
        => ret.err = "none"

\* C14: reset_max_degree(k) with k >= 2 empties the cost memo and sets
\* max_degree to k; with k < 2 it fails with ValueError and leaves
\* max_degree and the memo as they were before the call.
C14_ResetMaxDegree ==
    [][ret'.op = "reset_max_degree"
        => IF ret'.new_max >= 2
           THEN /\ ret'.err = "none"
                /\ max_degree' = Some(ret'.new_max)
                /\ num_elements_dict' = << >>
           ELSE /\ ret'.err = "ValueError"
                /\ max_degree' = max_degree
                /\ num_elements_dict' = num_elements_dict]_vars

\* a refused reset has left a memo that holds costs
C14_Witness ==
    /\ ret.op = "reset_max_degree"
    /\ ret.err = "ValueError"
    /\ max_degree = Some(2)
    /\ num_elements_dict # << >>

-----------------------------------------------------------------------------
(* The reduction of switch lists to a QUBO *)

MaxSwitches == 2     \* most switches of a list handed to to_qubo

QuboNames == {"L0", "R0", "a"}
QuboConstants == {<<0, 0>>, <<1, 2>>}

\* the switches with disjoint sides over QuboNames and QuboConstants
QuboSwitches ==
    {Switch(t[1], t[2], t[3][1], t[3][2]) :
        t \in {u \in (SUBSET QuboNames) \X (SUBSET QuboNames) \X QuboConstants :
                  u[1] \cap u[2] = {}}}

QuboCall ==
    /\ ret.op = "none"
    /\ \E n \in 0..MaxSwitches : \E switches \in [1..n -> QuboSwitches] : ToQubo(switches)

NextQubo ==
    \/ QuboCall
    \/ Discard

SpecQubo == Loaded /\ [][NextQubo]_vars

\* the reference expansion of (sum L + cL - sum R - cR)^2, summed over the
\* switches from the k-th on: the coefficient of the pair {u, v}
RECURSIVE RefQuadratic(_, _, _, _)
RefQuadratic(switches, u, v, k) ==
    IF k > Len(switches) THEN 0
    ELSE LET sw == switches[k]
         IN  (IF {u, v} \subseteq sw.left_nodes THEN 2 ELSE 0)
             + (IF {u, v} \subseteq sw.right_nodes THEN 2 ELSE 0)
             + (IF (u \in sw.left_nodes /\ v \in sw.right_nodes)
                    \/ (v \in sw.left_nodes /\ u \in sw.right_nodes) THEN -2 ELSE 0)
             + RefQuadratic(switches, u, v, k + 1)

\* the coefficient of the variable u
RECURSIVE RefLinear(_, _, _)
RefLinear(switches, u, k) ==
    IF k > Len(switches) THEN 0
    ELSE LET sw == switches[k]
             c == sw.left_constant - sw.right_constant
         IN  (IF u \in sw.left_nodes THEN 2 * c + 1 ELSE 0)
             + (IF u \in sw.right_nodes THEN -2 * c + 1 ELSE 0)
             + RefLinear(switches, u, k + 1)

\* the constant
RECURSIVE RefConstant(_, _)
RefConstant(switches, k) ==
    IF k > Len(switches) THEN 0
    ELSE LET c == switches[k].left_constant - switches[k].right_constant
         IN  c * c + RefConstant(switches, k + 1)

\* the pairs some switch of the list touches
RefPairs(switches) ==
    UNION {Pairs(SwitchVars(switches[k])) : k \in 1..Len(switches)}

\* C5: for every list of switches with disjoint sides, to_qubo returns the
\* union of the sides as variables and the coefficients of the reference
\* expansion (per switch +2 for a pair inside L or inside R, -2 for a cross
\* pair, 2c+1 for a variable of L, -2c+1 for a variable of R, c^2 for the
\* constant, repeated pairs added up), so that at every 0/1 assignment the
\* QUBO is the sum over the switches of (sum L + cL - sum R - cR)^2.
C5_ToQuboIsExpansion ==
    ret.op = "to_qubo"
        => LET q == ret.val
               switches == ret.switches
           IN  /\ q.variables = AllVars(switches)
               /\ DOMAIN q.quadratic = RefPairs(switches)
               /\ \A pair \in DOMAIN q.quadratic :
                     \E u \in pair, v \in pair :
                        /\ pair = {u, v}
                        /\ q.quadratic[pair] = RefQuadratic(switches, u, v, 1)
               /\ DOMAIN q.linear = AllVars(switches)
               /\ \A u \in DOMAIN q.linear : q.linear[u] = RefLinear(switches, u, 1)
               /\ q.constant = RefConstant(switches, 1)
               /\ \A ones \in SUBSET q.variables :
                     Energy(q, ones) = SumResidual2(switches, ones, 1)

\* the example of the claim, followed by a switch that repeats its pair
C5_Witness ==
    /\ ret.op = "to_qubo"
    /\ Len(ret.switches) = 2
    /\ ret.switches[1] = Switch({"L0"}, {"R0"}, 1, 2)
    /\ ret.switches[2] = Switch({"L0", "R0"}, {"a"}, 0, 0)
    /\ ret.val.linear["L0"] = -1 + 1
    /\ ret.val.linear["R0"] = 3 + 1
    /\ ret.val.constant = 1
    /\ ret.val.quadratic[{"L0", "R0"}] = 0

\* the example of the claim alone
C5_Example ==
    /\ ret.op = "to_qubo"
    /\ ret.switches = <<Switch({"L0"}, {"R0"}, 1, 2)>>
    /\ ret.val.linear["L0"] = -1
    /\ ret.val.linear["R0"] = 3
    /\ ret.val.constant = 1

-----------------------------------------------------------------------------
(* The boundary nodes and the validation of the parameters *)

\* variable lists: x0 .. x{N-1} in both orders, and names that look like
\* the names of synthesized nodes
NodeLists ==
    {XNames(N) : N \in 0..MaxN} \cup {Reverse(XNames(N)) : N \in 2..MaxN}
    \cup {<<"R0", "b", "L0">>}

\* c1 and c2 as the caller may pass them: absent or an integer around 0..N
NodeParams == {None} \cup {Some(c) : c \in -1..(MaxN + 1)}

NodesCall ==
    /\ ret.op = "none"
    /\ \E variables \in NodeLists, constraint_type \in ConstraintType,
          c1 \in NodeParams, c2 \in NodeParams, exponentiation \in BOOLEAN :
         GetInitialNodes(variables, constraint_type, c1, c2, exponentiation)

NodesSwitchesCall ==
    /\ ret.op = "none"
    /\ \E N \in 0..MaxN, constraint_type \in ConstraintType,
          c1 \in NodeParams, c2 \in NodeParams,
          network_type \in {BUBBLE_SORT, BITONIC_SORT} :
         GetConstraintSwitches(XNames(N), constraint_type, network_type,
                               c1, c2, None, FALSE, Some("A"))

NextNodes ==
    \/ NodesCall
    \/ NodesSwitchesCall
    \/ Discard

SpecNodes == Loaded /\ [][NextNodes]_vars

\* the range conditions of the parameters for N variables
ParamsValid(N, constraint_type, c1, c2) ==
    CASE constraint_type = ONE_HOT -> TRUE
      [] constraint_type = EQUAL_TO -> c1 # None /\ 0 <= Val(c1) /\ Val(c1) <= N
      [] constraint_type = LESS_EQUAL -> c1 # None /\ 0 < Val(c1) /\ Val(c1) <= N
      [] constraint_type = GREATER_EQUAL -> c1 # None /\ 0 <= Val(c1) /\ Val(c1) < N
      [] constraint_type = CLAMP ->
            /\ c1 # None /\ c2 # None
            /\ 0 <= Val(c1) /\ Val(c1) <= Val(c2) /\ Val(c2) <= N

\* the least power of two that is at least N >= 1
LeastPowerOfTwo(N) ==
    CHOOSE t \in {2 ^ e : e \in 0..N} : t >= N /\ \A e \in 0..N : 2 ^ e >= N => t <= 2 ^ e

\* the attribute of the right node of original index i (from 0) as the
\* front-end table gives it
TableAttr(i, N, constraint_type, c1, c2) ==
    CASE constraint_type = ONE_HOT -> IF i < N - 1 THEN ALWAYS_ZERO ELSE ALWAYS_ONE
      [] constraint_type = EQUAL_TO -> IF i < N - Val(c1) THEN ALWAYS_ZERO ELSE ALWAYS_ONE
      [] constraint_type = LESS_EQUAL -> IF i < N - Val(c1) THEN ALWAYS_ZERO ELSE NOT_CARE
      [] constraint_type = GREATER_EQUAL -> IF i < N - Val(c1) THEN NOT_CARE ELSE ALWAYS_ONE
      [] constraint_type = CLAMP ->
            IF i < N - Val(c2) THEN ALWAYS_ZERO
            ELSE IF i < N - Val(c1) THEN NOT_CARE ELSE ALWAYS_ONE

\* C6: for a variable list of size N, a constraint kind with valid
\* parameters and either padding flag, get_initial_nodes returns
\* target_size nodes on each side (target_size = N, or the least power of
\* two >= N with padding on and N > 0); the left nodes are pad_len =
\* target_size - N nodes L0.. with ALWAYS_ZERO followed by one ZERO_OR_ONE
\* node per user variable, named as the user string, in input order; the
\* right nodes are R0..R{target_size-1}, pad_len ALWAYS_ZERO nodes followed
\* by the N nodes with the attributes of the front-end table.
C6_InitialNodes ==
    (ret.op = "get_initial_nodes"
     /\ ParamsValid(Len(ret.variables), ret.constraint_type, ret.c1, ret.c2))
        => LET N == Len(ret.variables)
               target_size == IF ret.exponentiation /\ N > 0
                              THEN LeastPowerOfTwo(N) ELSE N
               pad_len == target_size - N
               left == ret.val.left
               right == ret.val.right
           IN  /\ ret.err = "none"
               /\ Len(left) = target_size
               /\ Len(right) = target_size
               /\ \A k \in 1..pad_len :
                     /\ left[k] = VariableNode("L" \o ToString(k - 1), ALWAYS_ZERO)
                     /\ right[k].attribute = ALWAYS_ZERO
               /\ \A k \in 1..N :
                     /\ left[pad_len + k] = VariableNode(ret.variables[k], ZERO_OR_ONE)
                     /\ right[pad_len + k].attribute
                            = TableAttr(k - 1, N, ret.constraint_type, ret.c1, ret.c2)
               /\ \A k \in 1..target_size : right[k].name = "R" \o ToString(k - 1)

\* a padded CLAMP call on three variables whose names look like node names
C6_Witness ==
    /\ ret.op = "get_initial_nodes"
    /\ ret.variables = <<"R0", "b", "L0">>
    /\ ret.constraint_type = CLAMP
    /\ ret.c1 = Some(1)
    /\ ret.c2 = Some(2)
    /\ ret.exponentiation
    /\ ret.err = "none"
    /\ Len(ret.val.left) = 4
    /\ [k \in 1..4 |-> ret.val.right[k].attribute]
          = <<ALWAYS_ZERO, ALWAYS_ZERO, NOT_CARE, ALWAYS_ONE>>

\* C7: for a variable list of any size N >= 0, the empty list included,
\* get_initial_nodes and get_constraint_switches fail with ValueError and
\* return no nodes whenever the parameters violate the range conditions.
C7_InvalidParametersRejected ==
    (ret.op \in {"get_initial_nodes", "get_constraint_switches"}
     /\ ~ParamsValid(Len(ret.variables), ret.constraint_type, ret.c1, ret.c2))
        => ret.err = "ValueError" /\ ret.val = << >>

\* the same for N >= 1 only
InvalidParametersRejectedFrom1 ==
    (ret.op \in {"get_initial_nodes", "get_constraint_switches"}
     /\ Len(ret.variables) >= 1
     /\ ~ParamsValid(Len(ret.variables), ret.constraint_type, ret.c1, ret.c2))
        => ret.err = "ValueError" /\ ret.val = << >>

-----------------------------------------------------------------------------
(* The prefixes of the auxiliary variables *)

\* s begins with p
StartsWith(s, p) == Len(s) >= Len(p) /\ SubSeq(s, 1, Len(p)) = p

\* the variables of the QUBO of a returned switch list
QuboVariables(r) == to_qubo(r.val).variables

\* r is a get_constraint_switches call with the default prefix that returned
DefaultCall(r) ==
    r.op = "get_constraint_switches" /\ r.var_prefix = None /\ r.err = "none"

PrefixLists == {<<"x0", "x1">>, <<"y0", "y1", "y2">>, <<"C0_R1", "y1">>}

\* ONE_HOT; LESS_EQUAL 1; EQUAL_TO 9, which every list here is too short for
PrefixKinds == {<<ONE_HOT, None>>, <<LESS_EQUAL, Some(1)>>, <<EQUAL_TO, Some(9)>>}

PrefixCall ==
    /\ counter < MaxCounter
    /\ \E variables \in PrefixLists, kind \in PrefixKinds,
          network_type \in {BUBBLE_SORT, DIVIDE_AND_CONQUER},
          var_prefix \in {None, Some("P")} :
         GetConstraintSwitches(variables, kind[1], network_type, kind[2], None,
                               None, FALSE, var_prefix)

NextPrefix ==
    \/ PrefixCall
    \/ ResetConstraintPrefixCounter

SpecPrefix == Loaded /\ [][NextPrefix]_vars

\* C8: when, after a reset of the prefix counter, two successive
\* default-prefix calls on disjoint sets of user-variable names (any names)
\* return, the variable sets of the two QUBOs are disjoint.
C8_PrefixIsolation ==
    [][(/\ prev.op = "reset_constraint_prefix_counter"
        /\ DefaultCall(ret)
        /\ DefaultCall(ret')
        /\ prev' = ret
        /\ NameSet(ret.variables) \cap NameSet(ret'.variables) = {})
          => QuboVariables(ret) \cap QuboVariables(ret') = {}]_vars

\* no user-variable name begins with a default prefix
NoPrefixedName(variables) ==
    \A v \in NameSet(variables) : \A n \in 0..MaxCounter :
        ~StartsWith(v, DefaultPrefix(n) \o "_")

\* the same as C8 for user-variable names that begin with no default prefix
PrefixIsolationPlainNames ==
    (/\ DefaultCall(prev)
     /\ DefaultCall(ret)
     /\ NameSet(prev.variables) \cap NameSet(ret.variables) = {}
     /\ NoPrefixedName(prev.variables)
     /\ NoPrefixedName(ret.variables))
        => QuboVariables(prev) \cap QuboVariables(ret) = {}

\* C10: the default prefixes assigned since the counter was last 0 are
\* C0, C1, C2, ... in this order (so they increase and are pairwise
\* distinct) and there are as many of them as the counter says, so that a
\* call with an explicit prefix has not advanced the counter; a call with
\* an explicit prefix uses it; a call that returns names its auxiliary
\* variables with its prefix; after a reset the counter is 0 and no
\* prefix is assigned, so that the next default prefix is C0.
C10_DefaultPrefixSequence ==
    /\ Len(handed) = counter
    /\ \A i \in 1..Len(handed) : handed[i] = "C" \o ToString(i - 1)
    /\ ret.op = "get_constraint_switches" =>
          /\ ret.var_prefix # None => ret.prefix = Val(ret.var_prefix)
          /\ ret.var_prefix = None => ret.prefix = handed[Len(handed)]
          /\ ret.err = "none" =>
                \A v \in AllVars(ret.val) \ NameSet(ret.variables) :
                    StartsWith(v, ret.prefix \o "_")
    /\ ret.op = "reset_constraint_prefix_counter" => counter = 0 /\ handed = << >>

\* a default-prefix call following an explicit-prefix call and a failed
\* default-prefix call
C10_Witness ==
    /\ DefaultCall(ret)
    /\ ret.prefix = "C1"
    /\ AllVars(ret.val) \ NameSet(ret.variables) # {}
    /\ prev.op = "get_constraint_switches"
    /\ prev.var_prefix = Some("P")
    /\ handed = <<"C0", "C1">>

\* the first default-prefix call after a reset that followed a call
C10_WitnessReset ==
    /\ DefaultCall(ret)
    /\ prev.op = "reset_constraint_prefix_counter"
    /\ ret.prefix = "C0"

-----------------------------------------------------------------------------
(* Renaming of the auxiliary variables *)

RenameNames == {"a", "p_a", "b"}

\* the switches with disjoint sides over RenameNames
RenameSwitches ==
    {Switch(t[1], t[2], 1, 2) :
        t \in {u \in (SUBSET RenameNames) \X (SUBSET RenameNames) : u[1] \cap u[2] = {}}}

RenameCall ==
    /\ ret.op = "none"
    /\ \E n \in 0..MaxSwitches : \E switches \in [1..n -> RenameSwitches] :
         \E original_variables \in {{}, {"a"}, {"p_a"}, {"a", "b"}},
            prefix \in {"p", "C0"} :
            PrefixAuxiliaryVariables(switches, original_variables, prefix)

NextRename ==
    \/ RenameCall
    \/ Discard

SpecRename == Loaded /\ [][NextRename]_vars

\* C9: for every switch list, set U of user variables and prefix p,
\* _prefix_auxiliary_variables returns a list of the same length in which
\* the k-th switch has the constants of the k-th given one, its names in U
\* as they were and every other name v as "p_v", as many left nodes and as
\* many right nodes as before, and disjoint sides.
C9_RenamingKeepsShape ==
    ret.op = "_prefix_auxiliary_variables"
        => LET U == ret.original_variables
               New(v) == IF v \in U THEN v ELSE ret.prefix \o "_" \o v
           IN  /\ Len(ret.val) = Len(ret.switches)
               /\ \A k \in 1..Len(ret.switches) :
                     LET old == ret.switches[k]
                         new == ret.val[k]
                     IN  /\ new.left_constant = old.left_constant
                         /\ new.right_constant = old.right_constant
                         /\ new.left_nodes = {New(v) : v \in old.left_nodes}
                         /\ new.right_nodes = {New(v) : v \in old.right_nodes}
                         /\ Cardinality(new.left_nodes) = Cardinality(old.left_nodes)
                         /\ Cardinality(new.right_nodes) = Cardinality(old.right_nodes)
                         /\ new.left_nodes \cap new.right_nodes = {}

\* no auxiliary name of the list, once prefixed, is another name of the list
RenamingInjective ==
    \A v \in AllVars(ret.switches) \ ret.original_variables :
        (ret.prefix \o "_" \o v) \notin AllVars(ret.switches)

\* the same as C9 whenever the renaming is injective on the list
RenamingKeepsShapeInjective ==
    (ret.op = "_prefix_auxiliary_variables" /\ ~RenamingInjective) \/ C9_RenamingKeepsShape

-----------------------------------------------------------------------------
(* The divide-and-conquer constructor on arbitrary boundaries *)

\* the boundary nodes L0, L1, ... and R0, R1, ... with the attributes attrs
LNodes(attrs) ==
    [k \in 1..Len(attrs) |-> VariableNode("L" \o ToString(k - 1), attrs[k])]
RNodes(attrs) ==
    [k \in 1..Len(attrs) |-> VariableNode("R" \o ToString(k - 1), attrs[k])]

\* every attribute pattern of N nodes
AttrPatterns(N) == [1..N -> NodeAttribute]

\* N nodes of the one attribute a
Uniform(N, a) == [k \in 1..N |-> a]

\* left boundaries: all ZERO_OR_ONE, or one node of another attribute
LeftPatterns(N) ==
    {[Uniform(N, ZERO_OR_ONE) EXCEPT ![k] = a] : k \in 1..N, a \in NodeAttribute}

DivideRawCall ==
    /\ ret.op = "none"
    /\ \E N \in 1..MaxN, reverse \in BOOLEAN,
          threshold \in {None} \cup {Some(t) : t \in 1..MaxThreshold} :
         \E left \in LeftPatterns(N), right \in AttrPatterns(N) :
            GenerateNetwork(DIVIDE_AND_CONQUER, LNodes(left), RNodes(right),
                            threshold, reverse)

\* the front-end on the divide-and-conquer network, the prefix given
DivideFrontCall ==
    /\ ret.op = "none"
    /\ \E variables \in DivideLists, constraint_type \in ConstraintType,
          threshold \in {None} \cup {Some(t) : t \in 1..MaxThreshold},
          reverse \in BOOLEAN :
         \E p \in ValidParams(Len(variables), constraint_type) :
            GetConstraintSwitches(variables, constraint_type, DIVIDE_AND_CONQUER,
                                  p[1], p[2], threshold, reverse, Some("P"))

NextDivideRaw ==
    \/ DivideFrontCall
    \/ DivideRawCall
    \/ Discard

SpecDivideRaw == Loaded /\ [][NextDivideRaw]_vars

\* the last operation was cls.generate_network on this network
Generated(network_type) ==
    ret.op = "generate_network" /\ ret.network_type = network_type

\* the attributes of a boundary
AttrsOf(nodes) == {nodes[k].attribute : k \in 1..Len(nodes)}

\* the raw divide-and-conquer constructor raises on a boundary with a right
\* node that is NOT_CARE or ZERO_OR_ONE or a left node that is not ZERO_OR_ONE
DivideRawRefuses ==
    (/\ Generated(DIVIDE_AND_CONQUER)
     /\ \/ AttrsOf(ret.right_nodes) \cap {NOT_CARE, ZERO_OR_ONE} # {}
        \/ AttrsOf(ret.left_nodes) # {ZERO_OR_ONE})
        => /\ ret.raw.err = "ValueError"
           /\ ret.err # "none"
           /\ ret.val = << >>

\* C12 as stated: a divide-and-conquer call for LESS_EQUAL, GREATER_EQUAL or
\* CLAMP with valid parameters fails and returns no switch list, and the raw
\* constructor raises on every boundary with a right node that is NOT_CARE
\* or ZERO_OR_ONE or a left node that is not ZERO_OR_ONE.
C12_InequalitiesRefused ==
    /\ (Called(DIVIDE_AND_CONQUER)
         /\ ret.constraint_type \in {LESS_EQUAL, GREATER_EQUAL, CLAMP})
            => (ret.err # "none" /\ ret.val = << >>)
    /\ DivideRawRefuses

\* C12: a divide-and-conquer call for LESS_EQUAL, GREATER_EQUAL, or CLAMP
\* with c1 < c2, fails with ValueError and returns no switch list; CLAMP
\* with c1 = c2 has a boundary of constants only, succeeds and accepts
\* exactly the assignments of sum c1; the raw constructor raises on every
\* boundary with a right node that is NOT_CARE or ZERO_OR_ONE or a left node
\* that is not ZERO_OR_ONE.
C12_ProperInequalitiesRefused ==
    /\ (Called(DIVIDE_AND_CONQUER)
         /\ ret.constraint_type \in {LESS_EQUAL, GREATER_EQUAL, CLAMP})
            => IF ret.constraint_type = CLAMP /\ ret.c1 = ret.c2
               THEN ret.err = "none" /\ AcceptsConstraint
               ELSE ret.err = "ValueError" /\ ret.val = << >>
    /\ DivideRawRefuses

\* a proper CLAMP has been refused
C12_Witness ==
    /\ Called(DIVIDE_AND_CONQUER)
    /\ ret.constraint_type = CLAMP
    /\ ret.c1 = Some(1)
    /\ ret.c2 = Some(2)
    /\ Len(ret.variables) = 3
    /\ ret.err = "ValueError"

\* a divide-and-conquer call on ZERO_OR_ONE left nodes and a right boundary
\* that is all ALWAYS_ZERO or all ALWAYS_ONE
DivideUniform ==
    /\ Generated(DIVIDE_AND_CONQUER)
    /\ AttrsOf(ret.left_nodes) = {ZERO_OR_ONE}
    /\ AttrsOf(ret.right_nodes) \in {{ALWAYS_ZERO}, {ALWAYS_ONE}}

\* C20: on N >= 1 ZERO_OR_ONE left nodes and a right boundary that is all
\* ALWAYS_ZERO or all ALWAYS_ONE, the raw divide-and-conquer constructor
\* emits the N switches ({L_i}, {R_i}) in the order of i, and
\* generate_network returns N switches ({L_i}, {}, 0, c), one per left
\* node, c the constant of the boundary (in the order of i when reverse
\* is set, in the opposite order otherwise)
C20_DivideUniform ==
    DivideUniform
        => LET N == Len(ret.left_nodes)
               c == IF AttrsOf(ret.right_nodes) = {ALWAYS_ONE} THEN 1 ELSE 0
               fixed == [k \in 1..N |-> Switch({ret.left_nodes[k].name}, {}, 0, c)]
           IN  /\ ret.raw.err = "none"
               /\ ret.raw.val = [k \in 1..N |->
                                   Switch({ret.left_nodes[k].name},
                                          {ret.right_nodes[k].name}, 0, 0)]
               /\ ret.err = "none"
               /\ Len(ret.val) = N
               /\ ret.val = IF ret.reverse THEN fixed ELSE Reverse(fixed)

C20_Witness ==
    /\ DivideUniform
    /\ Len(ret.left_nodes) = 4
    /\ AttrsOf(ret.right_nodes) = {ALWAYS_ONE}
    /\ ret.threshold = Some(2)
    /\ ~ret.reverse
    /\ Len(ret.val) = 4
    /\ ret.val[1] = Switch({"L3"}, {}, 0, 1)

-----------------------------------------------------------------------------
(* The constructors on arbitrary right boundaries *)

\* the constructors that read no class attribute, and the two that do
StatelessTypes == {BUBBLE_SORT, BITONIC_SORT, ODDEVEN_MERGE_SORT, BENES, DIVIDE_AND_CONQUER}
MemoTypes == {CLOS_NETWORK_MAX_DEGREE, CLOS_NETWORK_MIN_EDGE}

\* the thresholds passed to a constructor: only divide-and-conquer reads it
NetworkThresholds(network_type) ==
    IF network_type = DIVIDE_AND_CONQUER THEN {None, Some(2)} ELSE {None}

\* generate_network of a constructor without class state; the caller makes
\* these calls before it configures the Clos classes
NetworkCall ==
    /\ ret.op = "none"
    /\ max_degree = None
    /\ \E network_type \in StatelessTypes, N \in 1..MaxN, reverse \in BOOLEAN :
         \E right \in AttrPatterns(N), threshold \in NetworkThresholds(network_type) :
            GenerateNetwork(network_type, LNodes(Uniform(N, ZERO_OR_ONE)), RNodes(right),
                            threshold, reverse)

\* generate_network of a Clos variant
NetworkMemoCall ==
    /\ ret.op = "none"
    /\ \E network_type \in MemoTypes, N \in 1..MaxN, reverse \in BOOLEAN :
         \E right \in AttrPatterns(N) :
            GenerateNetwork(network_type, LNodes(Uniform(N, ZERO_OR_ONE)), RNodes(right),
                            None, reverse)

\* the same call again with the other value of reverse
NetworkCallReversed ==
    /\ ret.op = "generate_network"
    /\ prev.op = "none"
    /\ GenerateNetwork(ret.network_type, ret.left_nodes, ret.right_nodes,
                       ret.threshold, ~ret.reverse)

\* the returned list, put in the order of a raw network (left to right), is
\* handed to the driver again with the same right boundary
NetworkSimplifyAgain ==
    /\ ret.op = "generate_network"
    /\ prev.op = "none"
    /\ ret.err = "none"
    /\ Simplify(IF ret.reverse THEN ret.val ELSE Reverse(ret.val),
                ret.right_nodes, ret.reverse)

NetworkResetMaxDegree ==
    /\ ret.op = "none"
    /\ max_degree = None
    /\ ResetMaxDegree(2)

NextNetwork ==
    \/ NetworkCall
    \/ NetworkMemoCall
    \/ NetworkCallReversed
    \/ NetworkSimplifyAgain
    \/ NetworkResetMaxDegree
    \/ Discard

SpecNetwork == Loaded /\ [][NextNetwork]_vars

\* a generate_network call followed by the same call with reverse flipped
BothOrientations ==
    ret.op = "generate_network" /\ prev.op = "generate_network"

\* bitonic and odd-even merge sort hand reverse to the raw constructor, which
\* builds the mirrored network on more than two wires
Mirrored ==
    /\ ret.network_type \in {BITONIC_SORT, ODDEVEN_MERGE_SORT}
    /\ Len(ret.left_nodes) > 2

\* C15 as stated: for every constructor and every boundary it accepts, the
\* calls with reverse=True and reverse=False both succeed and one returned
\* list is the reversal of the other (the same multiset of switches)
C15_ReverseOnlyOrients ==
    (BothOrientations /\ prev.err = "none")
        => ret.err = "none" /\ ret.val = Reverse(prev.val)

\* C15: the two calls raise the same error or both succeed; they return
\* lists that are reversals of each other for bubble sort, Benes, both Clos
\* variants and divide-and-conquer on every boundary, and for bitonic and
\* odd-even merge sort on at most two wires
C15_ReverseOrientsUnlessMirrored ==
    BothOrientations
        => /\ ret.err = prev.err
           /\ ~Mirrored => ret.val = Reverse(prev.val)

C15_Witness ==
    /\ BothOrientations
    /\ ret.network_type = CLOS_NETWORK_MIN_EDGE
    /\ Len(ret.left_nodes) = 4
    /\ ret.reverse /\ ~prev.reverse
    /\ ret.err = "none"
    /\ Len(ret.val) > 1
    /\ ret.val # prev.val

\* the names on the left side of the switches of a list
LeftNames(network) == UNION {network[k].left_nodes : k \in 1..Len(network)}

\* some switch of the list has a right node that is neither a boundary node
\* nor on the left side of a switch of the list (the left node of an erased
\* NOT_CARE switch)
Dangling(network, right_nodes) ==
    \E k \in 1..Len(network) :
        ~(network[k].right_nodes \subseteq Range(Names(right_nodes)) \cup LeftNames(network))

FullyFixedSort ==
    /\ ret.op = "generate_network"
    /\ ret.err = "none"
    /\ \/ /\ ret.network_type \in {BUBBLE_SORT, BITONIC_SORT, ODDEVEN_MERGE_SORT}
          /\ AttrsOf(ret.right_nodes) = {ALWAYS_ZERO}
       \/ /\ ret.network_type = BUBBLE_SORT
          /\ AttrsOf(ret.right_nodes) = {ALWAYS_ONE}

\* C19 as stated: bubble sort, bitonic sort and odd-even merge sort on an
\* all-ALWAYS_ZERO right boundary, and bubble sort on an all-ALWAYS_ONE right
\* boundary, return an empty switch list
C19_FixedBoundaryEmpty ==
    FullyFixedSort => ret.val = << >>

\* on such a boundary the returned list has only switches ({node}, {}, 0, c)
\* that fix one node to the constant c of the boundary
FixedBoundaryOnlyUnits ==
    FullyFixedSort
        => \A k \in 1..Len(ret.val) :
              /\ Cardinality(ret.val[k].left_nodes) = 1
              /\ ret.val[k].right_nodes = {}
              /\ ret.val[k].left_constant = 0
              /\ ret.val[k].right_constant
                    = (IF ALWAYS_ONE \in AttrsOf(ret.right_nodes) THEN 1 ELSE 0)

-----------------------------------------------------------------------------
(* to_qubo on concatenated lists *)

\* a coefficient of a defaultdict, a missing key counting as 0
Coefficient(d, key) == IF key \in DOMAIN d THEN d[key] ELSE 0

\* the QUBO q is the sum of the QUBOs qa and qb
QuboIsSum(q, qa, qb) ==
    /\ q.variables = qa.variables \cup qb.variables
    /\ q.constant = qa.constant + qb.constant
    /\ DOMAIN q.linear = DOMAIN qa.linear \cup DOMAIN qb.linear
    /\ \A n \in DOMAIN q.linear :
          q.linear[n] = Coefficient(qa.linear, n) + Coefficient(qb.linear, n)
    /\ DOMAIN q.quadratic = DOMAIN qa.quadratic \cup DOMAIN qb.quadratic
    /\ \A k \in DOMAIN q.quadratic :
          q.quadratic[k] = Coefficient(qa.quadratic, k) + Coefficient(qb.quadratic, k)

\* C17: for every way of writing the list handed to to_qubo as A ++ B, the
\* returned QUBO has the variables of to_qubo(A) and to_qubo(B) together,
\* the sum of their constants and, for every variable and every pair, the
\* sum of their coefficients (a missing key counting as 0); to_qubo(B ++ A)
\* and to_qubo of the reversed list return the same QUBO
C17_ToQuboLinear ==
    ret.op = "to_qubo"
        => /\ \A k \in 0..Len(ret.switches) :
                LET A == SubSeq(ret.switches, 1, k)
                    B == SubSeq(ret.switches, k + 1, Len(ret.switches))
                IN  /\ QuboIsSum(ret.val, to_qubo(A), to_qubo(B))
                    /\ to_qubo(B \o A) = ret.val
           /\ to_qubo(Reverse(ret.switches)) = ret.val

C17_Witness ==
    /\ ret.op = "to_qubo"
    /\ Len(ret.switches) = 2
    /\ ret.switches[1] # ret.switches[2]
    /\ ret.switches[1].left_constant # ret.switches[1].right_constant
    /\ \E k \in DOMAIN ret.val.quadratic :
          /\ k \in DOMAIN to_qubo(<<ret.switches[1]>>).quadratic
          /\ k \in DOMAIN to_qubo(<<ret.switches[2]>>).quadratic
          /\ ret.val.quadratic[k] = 0

-----------------------------------------------------------------------------
(* The size of the QUBO of a one-hot constraint *)

MaxSparseN == 8      \* most user variables of a one-hot constraint whose QUBO is measured

\* the sizes from 8 on
SparseSizes == 8..MaxSparseN

\* get_constraint_switches for ONE_HOT on x0..x(N-1) with each network type
SparseCall ==
    /\ ret.op = "none"
    /\ \E N \in SparseSizes, network_type \in NetworkType, reverse \in BOOLEAN :
          GetConstraintSwitches(XNames(N), ONE_HOT, network_type, None, None, None,
                                reverse, Some("P"))

SparseResetMaxDegree ==
    /\ ret.op = "none"
    /\ \E new_max \in 2..MaxMaxDegree : ResetMaxDegree(new_max)

NextSparse ==
    \/ SparseCall
    \/ SparseResetMaxDegree
    \/ Discard

SpecSparse == Loaded /\ [][NextSparse]_vars

\* the number of quadratic terms of the QUBO of the returned switch list
QuadraticTerms == Cardinality(DOMAIN to_qubo(ret.val).quadratic)

\* N(N-1)/2, the number of quadratic terms of the naive encoding
NaiveTerms(N) == (N * (N - 1)) \div 2

\* a call for ONE_HOT on at least 8 variables
SparseCalled ==
    /\ ret.op = "get_constraint_switches"
    /\ ret.constraint_type = ONE_HOT
    /\ Len(ret.variables) >= 8

-----------------------------------------------------------------------------
(* The raw networks of the Clos family on boundaries of unequal sizes *)

MaxClosRawN == 5     \* most nodes of a boundary handed to a Clos constructor

ClosTypes == {BENES, CLOS_NETWORK_MAX_DEGREE, CLOS_NETWORK_MIN_EDGE}

\* generate_network of a class of the Clos family, the two boundaries of
\* any sizes
\* the sizes of the boundaries: the min-edge class is also given the size
\* at which it stops building one switch
ClosRawSizes(network_type) ==
    IF network_type = CLOS_NETWORK_MIN_EDGE THEN (1..MaxClosRawN) \cup {MinEdgeSplitN}
    ELSE 1..MaxClosRawN

ClosRawCall ==
    /\ ret.op = "none"
    /\ \E network_type \in ClosTypes :
         \E NL \in ClosRawSizes(network_type), NR \in ClosRawSizes(network_type) :
         GenerateNetwork(network_type, LNodes(Uniform(NL, ZERO_OR_ONE)),
                         RNodes(Uniform(NR, ZERO_OR_ONE)), None, FALSE)

ClosRawResetMaxDegree ==
    /\ ret.op = "none"
    /\ \E new_max \in 2..MaxMaxDegree : ResetMaxDegree(new_max)

NextClosRaw ==
    \/ ClosRawCall
    \/ ClosRawResetMaxDegree
    \/ Discard

SpecClosRaw == Loaded /\ [][NextClosRaw]_vars

\* the size N of a call: the larger of the two boundaries
BoundarySize == Max(Len(ret.left_nodes), Len(ret.right_nodes))

\* a call on a class of the Clos family that can run: the max-degree class
\* has its max_degree configured
ClosRawCalled ==
    /\ ret.op = "generate_network"
    /\ ret.network_type \in ClosTypes
    /\ ret.network_type = CLOS_NETWORK_MAX_DEGREE => max_degree # None

\* the one switch between all left names and all right names
OneSwitch ==
    /\ ret.raw.err = "none"
    /\ ret.raw.val = <<Switch2(Range(Names(ret.left_nodes)), Range(Names(ret.right_nodes)))>>

-----------------------------------------------------------------------------
(* The driver on arbitrary switch lists *)

MaxDriverSwitches == 2   \* most switches of a raw list handed to the driver

\* the names of the raw lists: those of the right boundary (R0, or R0 and
\* R1) and two more
DriverNames == {"R0", "R1", "a", "b"}
\* the two constants of a raw switch: (left_constant, right_constant)
DriverConstants == {<<0, 0>>, <<0, 1>>, <<1, 0>>}
\* the sides of a raw switch: at most two names
DriverSides == {S \in SUBSET DriverNames : Cardinality(S) <= 2}

\* the raw switches: the two sides may share a name and differ in size
DriverSwitches ==
    {Switch(l, r, c[1], c[2]) : l \in DriverSides, r \in DriverSides, c \in DriverConstants}

\* generate_network of a class whose raw network is one switch
DriverCall ==
    /\ ret.op = "none"
    /\ \E sw \in DriverSwitches, right \in AttrPatterns(1) \cup AttrPatterns(2) :
         Simplify(<<sw>>, RNodes(right), FALSE)

\* the same right boundary under a raw network with one more switch on the
\* left of a list the driver has accepted
DriverCallLonger ==
    /\ ret.op = "simplify"
    /\ ret.err = "none"
    /\ Len(ret.raw.val) < MaxDriverSwitches
    /\ \E sw \in DriverSwitches :
         Simplify(<<sw>> \o ret.raw.val, ret.right_nodes, FALSE)

NextDriver ==
    \/ DriverCall
    \/ DriverCallLonger
    \/ Discard

SpecDriver == Loaded /\ [][NextDriver]_vars

\* the driver state after the last j switches of the list have been visited
DriverAt(network, right_nodes, j) ==
    DriverLoop(DriverInit(right_nodes),
               SubSeq(network, Len(network) - j + 1, Len(network)), j)

RECURSIVE Frontier(_, _, _)
\* the rightmost names after the last j switches: each switch takes its
\* right set out and puts its left set in
Frontier(network, right_nodes, j) ==
    IF j = 0 THEN Range(Names(right_nodes))
    ELSE LET sw == network[Len(network) - j + 1]
         IN  (Frontier(network, right_nodes, j - 1) \ sw.right_nodes) \cup sw.left_nodes

\* the switch cannot be placed on the frontier
IllFormed(sw, frontier) ==
    \/ ~(sw.right_nodes \subseteq frontier)
    \/ sw.left_nodes \cap (frontier \ sw.right_nodes) # {}

\* the number of switches visited up to the first ill-formed one, 0 if none
FirstIllFormed(network, right_nodes) ==
    LET bad == {j \in 1..Len(network) :
                    IllFormed(network[Len(network) - j + 1],
                              Frontier(network, right_nodes, j - 1))}
    IN  IF bad = {} THEN 0 ELSE CHOOSE j \in bad : \A i \in bad : j <= i

\* C22: the driver walks the raw list from its last switch with the
\* frontier starting as the right-boundary names; at a switch whose right
\* set is not inside the frontier, or whose left set meets the frontier
\* without that right set, it raises ValueError (Invalid network) and the
\* call returns no list; at any other switch the frontier loses the right
\* set and gains the left set
C22_IllFormedDetected ==
    ret.op = "simplify"
        => LET network == ret.raw.val
               first == FirstIllFormed(network, ret.right_nodes)
           IN  /\ \A j \in 1..Len(network) :
                     LET before == DriverAt(network, ret.right_nodes, j - 1)
                         after == DriverAt(network, ret.right_nodes, j)
                         sw == network[Len(network) - j + 1]
                     IN  before.err = "none"
                            => /\ before.current_nodes = Frontier(network, ret.right_nodes, j - 1)
                               /\ IF IllFormed(sw, before.current_nodes)
                                  THEN /\ after.err = "ValueError: Invalid network"
                                       /\ j = first
                                  ELSE after.current_nodes
                                          = (before.current_nodes \ sw.right_nodes)
                                                \cup sw.left_nodes
               /\ first # 0 => ret.err = "ValueError: Invalid network" /\ ret.val = << >>

\* the second switch visited has a left node that is still on the frontier
C22_Witness ==
    /\ ret.op = "simplify"
    /\ Len(ret.raw.val) = 2
    /\ FirstIllFormed(ret.raw.val, ret.right_nodes) = 2
    /\ ret.raw.val[1].right_nodes \subseteq Frontier(ret.raw.val, ret.right_nodes, 1)
    /\ ret.raw.val[1].right_nodes # {}
    /\ DriverAt(ret.raw.val, ret.right_nodes, 1).result_network # << >>
    /\ ret.err = "ValueError: Invalid network"
    /\ ret.val = << >>

\* right_sum_min and right_sum_max of lines 70-79
RightSumMin(sw, attr) ==
    CountAttr(sw.right_nodes, attr, ALWAYS_ONE) + sw.right_constant - sw.left_constant
RightSumMax(sw, attr) ==
    CountNotAttr(sw.right_nodes, attr, ALWAYS_ZERO) + sw.right_constant - sw.left_constant

\* some 0/1 assignment of the nodes of the switch, the right nodes tagged
\* ALWAYS_ONE at 1 and those tagged ALWAYS_ZERO at 0, satisfies
\* sum L + cL = sum R + cR
SwitchSatisfiable(sw, attr) ==
    \E ones \in SUBSET SwitchVars(sw) :
        /\ \A r \in sw.right_nodes :
              /\ attr[r] = ALWAYS_ONE => r \in ones
              /\ attr[r] = ALWAYS_ZERO => r \notin ones
        /\ Holds(sw, ones)

\* the switches the driver visits without a scheduling or disjointness
\* error satisfy P(sw, state before the visit, state after the visit)
AtVisited(P(_, _, _)) ==
    ret.op = "simplify"
        => \A j \in 1..Len(ret.raw.val) :
              LET before == DriverAt(ret.raw.val, ret.right_nodes, j - 1)
                  sw == ret.raw.val[Len(ret.raw.val) - j + 1]
              IN  (before.err = "none" /\ ~IllFormed(sw, before.current_nodes))
                     => P(sw, before, DriverAt(ret.raw.val, ret.right_nodes, j))

InfeasibleRaised(sw, before, after) ==
    /\ after.err # "none"
          <=> (RightSumMax(sw, before.name_to_attribute) < 0
                  \/ RightSumMin(sw, before.name_to_attribute) > Cardinality(sw.left_nodes))
    /\ after.err # "none" => after.err = "ValueError: Invalid network"

InfeasibleIffUnsatisfiable(sw, before, after) ==
    after.err # "none" <=> ~SwitchSatisfiable(sw, before.name_to_attribute)

InfeasibleIffUnsatisfiableDisjoint(sw, before, after) ==
    sw.left_nodes \cap sw.right_nodes = {} => InfeasibleIffUnsatisfiable(sw, before, after)

\* the driver raises at a visited switch exactly when right_sum_max < 0 or
\* right_sum_min > n
InfeasibleByBounds == AtVisited(InfeasibleRaised)

\* C23 as stated: at each visited switch the driver fails exactly when
\* right_sum_max < 0 or right_sum_min > n, and that is exactly when no 0/1
\* assignment of the left nodes and the non-fixed right nodes satisfies
\* sum L + cL = sum R + cR
C23_InfeasibleDetected ==
    /\ AtVisited(InfeasibleRaised)
    /\ AtVisited(InfeasibleIffUnsatisfiable)

\* on switches whose two sides share no name the driver fails exactly at
\* the unsatisfiable ones
InfeasibleDetectedDisjointSides == AtVisited(InfeasibleIffUnsatisfiableDisjoint)

\* none of the three special cases of lines 88, 100 and 112 applies
Survives(sw, attr) ==
    LET n == Cardinality(sw.left_nodes)
    IN  /\ RightSumMin(sw, attr) # n
        /\ RightSumMax(sw, attr) # 0
        /\ ~(/\ \A r \in sw.right_nodes : attr[r] = NOT_CARE
             /\ RightSumMin(sw, attr) <= 0
             /\ RightSumMax(sw, attr) >= n)

Fixed(attr, n) == attr[n] \in {ALWAYS_ZERO, ALWAYS_ONE}

\* the visit of a surviving switch: the left nodes become ZERO_OR_ONE and
\* the one switch emitted has the fixed right nodes folded into its constant
SurvivorFolded(sw, before, after) ==
    (after.err = "none" /\ Survives(sw, before.name_to_attribute))
        => /\ \A l \in sw.left_nodes : after.name_to_attribute[l] = ZERO_OR_ONE
           /\ after.result_network
                 = Append(before.result_network,
                          Switch(sw.left_nodes,
                                 {r \in sw.right_nodes : ~Fixed(before.name_to_attribute, r)},
                                 sw.left_constant,
                                 sw.right_constant
                                    + CountAttr(sw.right_nodes, before.name_to_attribute,
                                                ALWAYS_ONE)))

\* the switches a visit emits have no right node that is fixed, and no
\* negative constant when the raw switch has none
EmittedClean(sw, before, after) ==
    after.err = "none"
        => \A k \in (Len(before.result_network) + 1)..Len(after.result_network) :
              /\ \A r \in after.result_network[k].right_nodes :
                    ~Fixed(before.name_to_attribute, r)
              /\ (sw.left_constant >= 0 /\ sw.right_constant >= 0)
                    => /\ after.result_network[k].left_constant >= 0
                       /\ after.result_network[k].right_constant >= 0

SurvivorFoldedDisjoint(sw, before, after) ==
    sw.left_nodes \cap sw.right_nodes = {}
        => SurvivorFolded(sw, before, after) /\ EmittedClean(sw, before, after)

\* C24 as stated: at a visited switch that is in none of the cases 'all
\* left forced to 1', 'all left forced to 0', 'all right NOT_CARE with
\* unrestricted range', the driver marks every left node ZERO_OR_ONE and
\* emits exactly one switch: the same left set, the right nodes tagged
\* neither ALWAYS_ZERO nor ALWAYS_ONE, left_constant unchanged,
\* right_constant raised by the number of ALWAYS_ONE right nodes; so no
\* emitted switch has a fixed node in its right set and no emitted constant
\* is negative when the raw constants are not
C24_SurvivorFolded ==
    /\ AtVisited(SurvivorFolded)
    /\ AtVisited(EmittedClean)

\* the same at the visited switches whose two sides share no name
SurvivorFoldedDisjointSides == AtVisited(SurvivorFoldedDisjoint)

\* the attributes of the right boundary as switches: an ALWAYS_ZERO node is
\* 0 and an ALWAYS_ONE node is 1
BoundarySwitches(right_nodes) ==
    LET fixed == SelectSeq(right_nodes, LAMBDA n : n.attribute \in {ALWAYS_ZERO, ALWAYS_ONE})
    IN  [k \in 1..Len(fixed) |->
            Switch({fixed[k].name}, {}, 0, IF fixed[k].attribute = ALWAYS_ONE THEN 1 ELSE 0)]

\* the left boundary of a raw list: the names the walk ends on that are not
\* names of the right boundary
LeftBoundary(network, right_nodes) ==
    Frontier(network, right_nodes, Len(network)) \ Range(Names(right_nodes))

\* C25 as stated: for every raw list that passes the checks of the driver
\* and every attribute pattern of the right boundary, the assignments of
\* the left-boundary nodes that extend to an assignment under which every
\* simplified switch holds are those that extend to one under which every
\* raw switch holds with the ALWAYS_ZERO boundary nodes at 0, the
\* ALWAYS_ONE boundary nodes at 1 and the other boundary nodes free
C25_SimplifyPreservesAccepted ==
    (ret.op = "simplify" /\ ret.err = "none")
        => Accepted(ret.val, LeftBoundary(ret.raw.val, ret.right_nodes))
           = Accepted(ret.raw.val \o BoundarySwitches(ret.right_nodes),
                      LeftBoundary(ret.raw.val, ret.right_nodes))

\* every name is put on the frontier once: no name is a left node of two
\* switches, or a left node and a boundary name, or on both sides of a switch
NamesFresh(network, right_nodes) ==
    /\ \A k \in 1..Len(network) :
          /\ network[k].left_nodes \cap network[k].right_nodes = {}
          /\ network[k].left_nodes \cap Range(Names(right_nodes)) = {}
    /\ \A j, k \in 1..Len(network) :
          j # k => network[j].left_nodes \cap network[k].left_nodes = {}

\* a visit that forces every left node leaves no right node undetermined
ForcedByFixed(sw, before, after) ==
    (RightSumMin(sw, before.name_to_attribute) = Cardinality(sw.left_nodes)
        \/ RightSumMax(sw, before.name_to_attribute) = 0)
        => \A r \in sw.right_nodes : Fixed(before.name_to_attribute, r)

\* the accepted set is preserved on the lists with fresh names whose forced
\* switches have only fixed right nodes
PreservedWhenForcedByFixed ==
    (/\ ret.op = "simplify" /\ ret.err = "none"
     /\ NamesFresh(ret.raw.val, ret.right_nodes)
     /\ AtVisited(ForcedByFixed))
        => Accepted(ret.val, LeftBoundary(ret.raw.val, ret.right_nodes))
           = Accepted(ret.raw.val \o BoundarySwitches(ret.right_nodes),
                      LeftBoundary(ret.raw.val, ret.right_nodes))

\* the claim on the lists with fresh names
PreservedOnFreshNames ==
    (/\ ret.op = "simplify" /\ ret.err = "none"
     /\ NamesFresh(ret.raw.val, ret.right_nodes))
        => Accepted(ret.val, LeftBoundary(ret.raw.val, ret.right_nodes))
           = Accepted(ret.raw.val \o BoundarySwitches(ret.right_nodes),
                      LeftBoundary(ret.raw.val, ret.right_nodes))

-----------------------------------------------------------------------------
(* The raw networks between the two boundaries *)

\* a constructor call that built a raw network
RawBuilt ==
    ret.op = "generate_network" /\ ret.raw.err = "none"

\* the raw list can be walked from the right boundary without a scheduling
\* or disjointness error
Walkable == FirstIllFormed(ret.raw.val, ret.right_nodes) = 0

SidesDisjoint ==
    \A k \in 1..Len(ret.raw.val) :
        ret.raw.val[k].left_nodes \cap ret.raw.val[k].right_nodes = {}

\* the walk ends on exactly the names of the left boundary
EndsOnLeftBoundary ==
    Frontier(ret.raw.val, ret.right_nodes, Len(ret.raw.val)) = Range(Names(ret.left_nodes))

\* C26 as stated: for every constructor and every boundary size N >= 1 it
\* accepts, the raw list passes every scheduling and disjointness check of
\* the driver when walked from the right boundary, every switch has disjoint
\* sides, and the walk ends with the frontier equal to the set of
\* left-boundary names
C26_RawWellFormed ==
    RawBuilt => Walkable /\ SidesDisjoint /\ EndsOnLeftBoundary

\* the raw networks are well formed except those of the three sorting
\* constructors on one wire, which are empty
RawWellFormedFrom2 ==
    RawBuilt
        => IF /\ ret.network_type \in {BUBBLE_SORT, BITONIC_SORT, ODDEVEN_MERGE_SORT}
              /\ Len(ret.left_nodes) = 1
           THEN ret.raw.val = << >>
           ELSE Walkable /\ SidesDisjoint /\ EndsOnLeftBoundary

-----------------------------------------------------------------------------
(* The degree of the switches of ClosNetworkWithMaxDegree *)

\* every switch of the list has at most k nodes on each side
DegreeAtMost(network, k) ==
    \A i \in 1..Len(network) :
        /\ Cardinality(network[i].left_nodes) <= k
        /\ Cardinality(network[i].right_nodes) <= k

\* a max-degree call on boundaries of which the larger has N >= 2 nodes
MaxDegreeCalled ==
    /\ ret.op = "generate_network"
    /\ ret.network_type = CLOS_NETWORK_MAX_DEGREE
    /\ max_degree # None
    /\ BoundarySize >= 2

\* the (n, r) that _determine_channel_sizes picks for the boundaries of the call
ChosenSizes ==
    MaxDegree_determine_channel_sizes(Len(ret.left_nodes), Len(ret.right_nodes),
                                      max_degree, num_elements_dict)

\* C27: after reset_max_degree(k) with k >= 2, on boundaries of any sizes
\* with N >= 2, ClosNetworkWithMaxDegree builds a raw network, and returns
\* a simplified one, whose switches have at most k left and at most k right
\* nodes; the (n, r) chosen for the boundaries has 2 <= n <= k and n*r >= N
C27_MaxDegreeBound ==
    MaxDegreeCalled
        => /\ ret.raw.err = "none"
           /\ DegreeAtMost(ret.raw.val, Val(max_degree))
           /\ ret.err = "none"
           /\ DegreeAtMost(ret.val, Val(max_degree))
           /\ BoundarySize > Val(max_degree)
                 => /\ ChosenSizes.err = "none"
                    /\ 2 <= ChosenSizes.n
                    /\ ChosenSizes.n <= Val(max_degree)
                    /\ ChosenSizes.n * ChosenSizes.r >= BoundarySize

\* a network of two levels between boundaries of five and three nodes
C27_Witness ==
    /\ MaxDegreeCalled
    /\ max_degree = Some(2)
    /\ Len(ret.left_nodes) = 5
    /\ Len(ret.right_nodes) = 3
    /\ ChosenSizes.n = 2
    /\ ChosenSizes.r = 3
    /\ Len(ret.raw.val) > 6
    /\ \E i \in 1..Len(ret.raw.val) : Cardinality(ret.raw.val[i].left_nodes) = 2
    /\ \E i \in 1..Len(ret.raw.val) :
          Cardinality(ret.raw.val[i].left_nodes) # Cardinality(ret.raw.val[i].right_nodes)

-----------------------------------------------------------------------------
(* The memos of the two Clos classes *)

\* the class state of a fresh process with the current max_degree
FreshState ==
    [max_degree |-> max_degree, num_elements_dict |-> << >>, min_edge |-> MinEdgeInitial]

\* the raw network a fresh process builds for the boundaries of the call
FreshNetwork ==
    generate_original_network(ret.network_type, ret.left_nodes, ret.right_nodes,
                              ret.threshold, ret.reverse, FreshState)

\* C30: after any sequence of generate_network and reset_max_degree calls,
\* the network that ClosNetworkMinimumEdge or ClosNetworkWithMaxDegree
\* builds for given boundaries is the one a fresh process with the same
\* max_degree builds; every memo entry for a size N is the cost computed
\* from scratch for N; is_small_dict and num_logical_edges_dict have the
\* same keys
C30_MemoHistoryIndependent ==
    /\ (ret.op = "generate_network" /\ ret.network_type \in MemoTypes)
          => /\ ret.raw.err = FreshNetwork.err
             /\ ret.raw.val = FreshNetwork.val
             /\ ret.val = generate_network(FreshNetwork, ret.right_nodes, ret.reverse).val
    /\ \A N \in DOMAIN num_elements_dict :
          num_elements_dict[N] = MaxDegree_cost(N, max_degree, << >>).v
    /\ \A N \in DOMAIN num_logical_edges_dict :
          /\ num_logical_edges_dict[N] = MinEdge_cost(N, MinEdgeInitial).v
          /\ is_small_dict[N] = MinEdge_cost(N, MinEdgeInitial).small
    /\ DOMAIN is_small_dict = DOMAIN num_logical_edges_dict

\* a max-degree network on three nodes built from a memo that holds the
\* cost of size 3, stored by an earlier call on a larger boundary, the
\* min-edge memo holding a size that class splits
C30_Witness ==
    /\ ret.op = "generate_network"
    /\ ret.network_type = CLOS_NETWORK_MAX_DEGREE
    /\ max_degree = Some(2)
    /\ BoundarySize = 3
    /\ ret.raw.err = "none"
    /\ 3 \in DOMAIN num_elements_dict
    /\ MinEdgeSplitN \in DOMAIN is_small_dict
    /\ ~is_small_dict[MinEdgeSplitN]

-----------------------------------------------------------------------------
(* The clique constructor *)

\* generate_network of CliqueNetwork on user variables x0, x1, ... and a
\* right boundary of any size and attributes
CliqueCall ==
    /\ ret.op = "none"
    /\ \E N \in 1..MaxN, NR \in 1..MaxN, reverse \in BOOLEAN :
         \E right \in AttrPatterns(NR) :
            GenerateNetwork(CLIQUE,
                            [k \in 1..N |-> VariableNode(XNames(N)[k], ZERO_OR_ONE)],
                            RNodes(right), None, reverse)

NextClique ==
    \/ CliqueCall
    \/ Discard

SpecClique == Loaded /\ [][NextClique]_vars

\* the number of right-boundary nodes tagged ALWAYS_ONE
BoundaryOnes ==
    Cardinality({k \in 1..Len(ret.right_nodes) : ret.right_nodes[k].attribute = ALWAYS_ONE})

\* a clique call on N >= 2 variables and a boundary of N - K ALWAYS_ZERO and
\* K ALWAYS_ONE nodes, 0 < K < N
CliqueCalledFixed ==
    /\ ret.op = "generate_network"
    /\ ret.network_type = CLIQUE
    /\ Len(ret.left_nodes) >= 2
    /\ Len(ret.right_nodes) = Len(ret.left_nodes)
    /\ AttrsOf(ret.right_nodes) = {ALWAYS_ZERO, ALWAYS_ONE}

\* C28: CliqueNetwork.generate_network on N >= 2 ZERO_OR_ONE left nodes and
\* a right boundary of N - K ALWAYS_ZERO and K ALWAYS_ONE nodes, 0 < K < N,
\* returns one switch (all left names, no right node, left_constant 0,
\* right_constant K), and its QUBO is (sum x - K)^2 over the user variables
C28_CliqueIsNaive ==
    CliqueCalledFixed
        => /\ ret.err = "none"
           /\ ret.val = <<Switch(Range(Names(ret.left_nodes)), {}, 0, BoundaryOnes)>>
           /\ to_qubo(ret.val).variables = Range(Names(ret.left_nodes))
           /\ \A ones \in SUBSET Range(Names(ret.left_nodes)) :
                 Energy(to_qubo(ret.val), ones)
                    = (Cardinality(ones) - BoundaryOnes) * (Cardinality(ones) - BoundaryOnes)

\* four variables of which two are to be 1, the ones of the boundary not
\* next to each other
C28_Witness ==
    /\ CliqueCalledFixed
    /\ Len(ret.left_nodes) = 4
    /\ BoundaryOnes = 2
    /\ ret.right_nodes[1].attribute = ALWAYS_ONE
    /\ ret.right_nodes[2].attribute = ALWAYS_ZERO
    /\ ret.right_nodes[3].attribute = ALWAYS_ONE
    /\ ret.val[1].right_constant = 2
    /\ Energy(to_qubo(ret.val), {"x0"}) = 1

-----------------------------------------------------------------------------
(* The prefix counter under failing calls and the other operations *)

\* the network types of the calls: two the front-end builds and NAIVE,
\* which it refuses with NotImplementedError
CounterTypes == {BUBBLE_SORT, DIVIDE_AND_CONQUER, NAIVE}

\* get_constraint_switches, with the default prefix or a given one; the
\* calls with EQUAL_TO 9 fail on c1, those with LESS_EQUAL on
\* divide-and-conquer fail on a NOT_CARE boundary node
CounterCall ==
    /\ counter < MaxCounter
    /\ \E variables \in {<<"x0", "x1">>, <<"y0", "y1", "y2">>}, kind \in PrefixKinds,
          network_type \in CounterTypes, var_prefix \in {None, Some("P")} :
         GetConstraintSwitches(variables, kind[1], network_type, kind[2], None,
                               None, FALSE, var_prefix)

CounterInitialNodes ==
    \E kind \in PrefixKinds :
        GetInitialNodes(<<"x0", "x1">>, kind[1], kind[2], None, FALSE)

CounterGenerateNetwork ==
    \E network_type \in {BUBBLE_SORT, CLOS_NETWORK_MAX_DEGREE} :
        GenerateNetwork(network_type, LNodes(Uniform(2, ZERO_OR_ONE)),
                        RNodes(<<ALWAYS_ZERO, ALWAYS_ONE>>), None, FALSE)

CounterToQubo ==
    /\ ret.op = "get_constraint_switches"
    /\ ret.err = "none"
    /\ ToQubo(ret.val)

CounterResetMaxDegree ==
    \E new_max \in 1..2 : ResetMaxDegree(new_max)

NextCounter ==
    \/ CounterCall
    \/ CounterInitialNodes
    \/ CounterGenerateNetwork
    \/ CounterToQubo
    \/ CounterResetMaxDegree
    \/ ResetConstraintPrefixCounter

SpecCounter == Loaded /\ [][NextCounter]_vars

\* C29: every get_constraint_switches call with var_prefix=None takes the
\* prefix C<counter> and raises the counter by exactly 1, whether it returns
\* or fails (invalid c1/c2, unsupported network type, divide-and-conquer
\* with NOT_CARE), so that the next default-prefix call skips the number of
\* a failed one; a call with a given prefix leaves the counter alone,
\* reset_constraint_prefix_counter sets it to 0 and no other operation
\* changes it
C29_CounterAdvancesOnFailure ==
    [][CASE ret'.op = "get_constraint_switches" /\ ret'.var_prefix = None ->
                /\ counter' = counter + 1
                /\ ret'.prefix = "C" \o ToString(counter)
         [] ret'.op = "get_constraint_switches" /\ ret'.var_prefix # None ->
                counter' = counter
         [] ret'.op = "reset_constraint_prefix_counter" -> counter' = 0
         [] OTHER -> counter' = counter]_vars

\* a default-prefix call that returns with the prefix C1 after a
\* default-prefix call that took C0 and failed on the unsupported network
\* type
C29_Witness ==
    /\ DefaultCall(ret)
    /\ ret.prefix = "C1"
    /\ counter = 2
    /\ prev.op = "get_constraint_switches"
    /\ prev.var_prefix = None
    /\ prev.network_type = NAIVE
    /\ prev.err = "NotImplementedError"
    /\ prev.prefix = "C0"

====
